---- MODULE Spec2Model ----
(***************************************************************************)
(* IB Economics Interactive Tutor: the rubric scorer, the remote grading   *)
(* adapter, the tutor's replies, the assessment run, the recommendation    *)
(* engine, the progress store, the start from localStorage, the grade     *)
(* calls in flight, the session and the tutor's dock of                    *)
(* src/unnamed/part_000, as state machines.                                *)
(*                                                                         *)
(* Strings are sequences of one-character strings.  JavaScript numbers are *)
(* modelled as exact rationals (numerator, denominator); on every input    *)
(* the specifications below enumerate, the IEEE double computation of the  *)
(* source rounds to the same integer as the exact one (no product that is  *)
(* rounded lies at a half the double arithmetic misses: the shipped        *)
(* question sets total 9 and 28 points, and scores are out of at most 4).  *)
(***************************************************************************)
EXTENDS Integers, Sequences, FiniteSets, TLC

VARIABLES
    text, rubric,                 \* the answer text and the rubric of a call
    scored,                       \* scoreShortAnswer: its result
    apiKey, pc, response, graded, \* openAIGrade: credential, position,
    requests,                     \*   settled response, result, fetches issued
    perQuestion, recs,            \* generateRecommendations: argument, result
    component, section, answers,  \* the mounted assessment, its section prop
    submitting,                   \*   and its state (answers, submitting/loading)
    run, submitted,               \* the grade call in progress, onSubmit's argument
    progress, view,               \* IbEconTutor: its progress and view state
    pending,                      \*   whether the save effect is still to run
    stored, written,              \* localStorage under LS_KEY; what was held when
    history,                      \*   it was written; the percents recorded
    replyPc, replyResponse,       \* assistantReply: position, settled response,
    reply,                        \*   result
    settings, storedSettings,     \* IbEconTutor: its settings state; localStorage
    thrown,                       \*   under LS_SETTINGS_KEY; the error a render threw
    calls,                        \* the grade calls started and not yet dismissed
    input, messages,              \* ChatDock: its input and messages state
    sends                         \*   and the invocations of its send

argVars == <<text, rubric>>
scoreVars == <<scored>>
gradeVars == <<apiKey, pc, response, graded, requests>>
recVars == <<perQuestion, recs>>
runVars == <<component, section, answers, submitting, run, submitted>>
appVars == <<progress, view, pending, stored, written, history>>
chatVars == <<replyPc, replyResponse, reply>>
sessionVars == <<settings, storedSettings, thrown, calls>>
dockVars == <<input, messages, sends>>
vars == <<argVars, scoreVars, gradeVars, recVars, runVars, appVars, chatVars, sessionVars, dockVars,
         dockVars>>

\* ------------------------------------------------------------------ numbers

Min(a, b) == IF a <= b THEN a ELSE b
Max(a, b) == IF a >= b THEN a ELSE b

\* Math.round of the non-negative rational n/d: the nearest integer, a half
\* rounded towards +infinity.
MathRound(n, d) == (2 * n + d) \div (2 * d)

\* The sequences over S of length at most n.
RECURSIVE SeqsUpTo(_, _)
SeqsUpTo(S, n) ==
    IF n = 0 THEN {<<>>}
    ELSE LET shorter == SeqsUpTo(S, n - 1)
         IN  shorter \cup {Append(s, x) : s \in shorter, x \in S}

\* ------------------------------------------------------------------ strings

\* The characters of the modelled texts: a lowercase letter, an uppercase
\* letter, and a character that is not a letter.
Chars == {"a", "B", "-"}

charToLowerCase(c) == IF c = "B" THEN "b" ELSE c

\* The string with its case kept.
caseKept(s) == s

\* String.prototype.toLowerCase
toLowerCase(s) == [i \in 1..Len(s) |-> charToLowerCase(s[i])]

\* The character class [a-z] of the split expression.
isAZ(c) == c \in {"a", "b"}

\* String.prototype.split(/[^a-z]+/): the pieces between the maximal runs of
\* characters outside a-z; a separator at either end leaves an empty piece.
RECURSIVE splitFrom(_, _, _, _)
splitFrom(s, i, piece, inSep) ==
    IF i > Len(s) THEN <<piece>>
    ELSE IF isAZ(s[i]) THEN splitFrom(s, i + 1, Append(piece, s[i]), FALSE)
    ELSE IF inSep THEN splitFrom(s, i + 1, piece, TRUE)
    ELSE <<piece>> \o splitFrom(s, i + 1, <<>>, TRUE)

split(s) == splitFrom(s, 1, <<>>, FALSE)

\* Array.prototype.filter(Boolean) on strings: the non-empty ones.
filterBoolean(parts) == SelectSeq(parts, LAMBDA p : p /= <<>>)

\* String.prototype.includes
includes(t, p) ==
    \E i \in 0..(Len(t) - Len(p)) : SubSeq(t, i + 1, i + Len(p)) = p

\* ------------------------------------------------------------ rubric scorer

\* `keywords.length || 3` and `rubric?.maxScore || 3`
DefaultCriteria == 3
DefaultMaxScore == 3

\* The pass with `every` in place of `some`: all the tokens must be found.
criterionHitEvery(t, k) ==
    LET parts == filterBoolean(split(toLowerCase(k)))
    IN  \A j \in 1..Len(parts) : includes(t, parts[j])

\* One pass of keywords.forEach: is criterion k hit by the lowercased text t?
criterionHit(t, k) ==
    LET parts == filterBoolean(split(toLowerCase(k)))
    IN  \E j \in 1..Len(parts) : includes(t, parts[j])

\* The scorer with its maximum fixed at the default, the rubric's ignored.
scoreShortAnswerFixedMax(txt, rub) ==
    IF txt = <<>> THEN 0
    ELSE
      LET t        == toLowerCase(txt)
          keywords == rub.criteria
          score    == Cardinality({j \in 1..Len(keywords) : criterionHit(t, keywords[j])})
          max      == IF Len(keywords) = 0 THEN DefaultCriteria ELSE Len(keywords)
      IN  MathRound(Min(score, max) * DefaultMaxScore, max)

scoreShortAnswer(txt, rub) ==
    IF txt = <<>> THEN 0
    ELSE
      LET t        == toLowerCase(txt)
          keywords == rub.criteria
          score    == Cardinality({j \in 1..Len(keywords) : criterionHit(t, keywords[j])})
          max      == IF Len(keywords) = 0 THEN DefaultCriteria ELSE Len(keywords)
          \* ratio = Math.min(score / max, 1), as numerator over denominator
          ratioN   == IF score > max THEN 1 ELSE score
          ratioD   == IF score > max THEN 1 ELSE max
          maxScore == IF rub.maxScore = 0 THEN DefaultMaxScore ELSE rub.maxScore
      IN  MathRound(ratioN * maxScore, ratioD)

\* The adapter before any call (the specifications of the other components
\* leave it so).
NoResponse == [stage |-> "none", json |-> [shape |-> "null", content |-> <<>>]]

GradeIdle ==
    /\ apiKey = "" /\ pc = "idle" /\ response = NoResponse
    /\ graded = <<>> /\ requests = 0

\* The recommender before any call.
RecIdle == perQuestion = <<>> /\ recs = <<>>

\* The application not started.
AppIdle ==
    /\ progress = <<>> /\ view = <<>> /\ pending = FALSE
    /\ stored = <<>> /\ written = <<>> /\ history = <<>>

\* No assessment mounted and no grade call in progress.
RunIdle ==
    /\ component = "none" /\ section = 0 /\ answers = <<>>
    /\ submitting = FALSE /\ run = <<>> /\ submitted = <<>>

\* The tutor before any call.
ChatIdle == replyPc = "idle" /\ replyResponse = NoResponse /\ reply = <<>>

\* No error was thrown.
NoError == ""

\* The session's settings and grade calls left out.
SessionIdle ==
    /\ settings = <<>> /\ storedSettings = <<>> /\ thrown = NoError /\ calls = <<>>

\* The tutor's dock left out.
DockIdle ==
    /\ input = <<>> /\ messages = <<>> /\ sends = <<>>

\* Bounds of the scorer's inputs.
MaxTextLen == 3
MaxCriteria == 2
MaxScoreBound == 4

Texts == SeqsUpTo(Chars, MaxTextLen)

\* The criterion phrases: one token, an uppercase token, two tokens around a
\* separator, a token of two letters, no letter at all, the empty phrase.
CriterionPool ==
    { <<"a">>, <<"B">>, <<"a", "-", "B">>, <<"B", "a">>, <<"-">>, <<>> }

Rubrics ==
    [criteria : SeqsUpTo(CriterionPool, MaxCriteria), maxScore : 1..MaxScoreBound]

\* `scored` is the empty sequence until the call returns, then <<score>>.
NotScored == <<>>

InitScore ==
    /\ text \in Texts
    /\ rubric \in Rubrics
    /\ scored = NotScored
    /\ GradeIdle
    /\ RecIdle
    /\ RunIdle
    /\ AppIdle
    /\ ChatIdle
    /\ SessionIdle
    /\ DockIdle

Score ==
    /\ scored = NotScored
    /\ scored' = <<scoreShortAnswer(text, rubric)>>
    /\ UNCHANGED <<argVars, gradeVars, recVars, runVars, appVars, chatVars, sessionVars, dockVars>>

NextScore == Score

SpecScore == InitScore /\ [][NextScore]_vars

\* The reference scorer, stated on sets.  A token of a criterion is a maximal
\* run of letters a-z of the lowercased criterion.
RefLower(s) == [i \in 1..Len(s) |-> IF s[i] = "B" THEN "b" ELSE s[i]]

RefLetter(c) == c = "a" \/ c = "b"

RefTokens(k) ==
    LET lk == RefLower(k)
    IN  { SubSeq(lk, i, j) : <<i, j>> \in
            { w \in (1..Len(lk)) \X (1..Len(lk)) :
                /\ w[1] <= w[2]
                /\ \A x \in w[1]..w[2] : RefLetter(lk[x])
                /\ (w[1] = 1 \/ ~RefLetter(lk[w[1] - 1]))
                /\ (w[2] = Len(lk) \/ ~RefLetter(lk[w[2] + 1])) } }

RefContains(t, p) ==
    \E i \in 1..(Len(t) + 1), j \in 0..Len(t) : SubSeq(t, i, j) = p

RefHits(txt, criteria) ==
    Cardinality({ j \in 1..Len(criteria) :
                    \E tok \in RefTokens(criteria[j]) : RefContains(RefLower(txt), tok) })

\* round-half-up(min(hits / max(1, N), 1) * maxScore)
RefScore(txt, criteria, maxScore) ==
    IF Len(txt) = 0 THEN 0
    ELSE LET hits == RefHits(txt, criteria)
             n    == Max(1, Len(criteria))
         IN  IF hits >= n THEN maxScore
             ELSE CHOOSE r \in 0..maxScore :
                    2 * n * r <= 2 * hits * maxScore + n /\ 2 * hits * maxScore + n < 2 * n * (r + 1)

\* C2: scoreShortAnswer returns what the reference scorer returns: 0 on an
\* empty answer, otherwise the share of the criteria of which some token is a
\* substring of the lowercased answer, times maxScore, rounded half up.
C2_ScorerEqualsReference ==
    scored /= NotScored => scored[1] = RefScore(text, rubric.criteria, rubric.maxScore)

\* C2's case: an uppercase answer hits one criterion of two and the product
\* 1/2 * 3 lies at a half, which rounds up to 2.
C2_Witness ==
    /\ scored = <<2>> /\ rubric.maxScore = 3 /\ Len(rubric.criteria) = 2
    /\ text = <<"B">>
    /\ RefHits(text, rubric.criteria) = 1

NonEmptyCriteria(rub) ==
    /\ Len(rub.criteria) >= 1
    /\ \A j \in 1..Len(rub.criteria) : rub.criteria[j] /= <<>>

\* C3: with at least one criterion, none of them empty, and maxScore > 0 the
\* score is an integer between 0 and maxScore.
C3_ScoreInRange ==
    (scored /= NotScored /\ NonEmptyCriteria(rubric) /\ rubric.maxScore > 0)
        => (scored[1] \in 0..rubric.maxScore)

\* C3's case: a rubric of two non-empty criteria, both hit, on a question
\* worth one point: the score reaches maxScore and stays there.
C3_Witness ==
    /\ scored = <<1>> /\ rubric.maxScore = 1 /\ NonEmptyCriteria(rubric)
    /\ Len(rubric.criteria) = 2 /\ RefHits(text, rubric.criteria) = 2

\* ------------------------------------------------- remote grading adapter

\* The three fixed feedback texts of openAIGrade.
HeuristicFeedback == "Heuristic feedback based on rubric coverage."
NetworkFeedback == "Network error: used heuristic grading."
AIDefaultFeedback == "AI feedback provided."

\* A feedback value: one of the fixed texts (lit) or the provider's text (str).
FixedFeedback(l) == [lit |-> l, str |-> <<>>]
TextFeedback(c) == [lit |-> "", str |-> c]

\* The characters of a provider's response text.
ContentChars == {"0", "1", "2", "/", ".", " "}

\* \d and \s of the score expression
isDigit(c) == c \in {"0", "1", "2", "3", "4", "5", "6", "7", "8", "9"}
isSpace(c) == c = " "

digitValue(c) ==
    CASE c = "0" -> 0 [] c = "1" -> 1 [] c = "2" -> 2 [] c = "3" -> 3
      [] c = "4" -> 4 [] c = "5" -> 5 [] c = "6" -> 6 [] c = "7" -> 7
      [] c = "8" -> 8 [] c = "9" -> 9

\* The index after the longest run of digits (of spaces) of s that starts at i.
RECURSIVE digitsEnd(_, _)
digitsEnd(s, i) == IF i <= Len(s) /\ isDigit(s[i]) THEN digitsEnd(s, i + 1) ELSE i

RECURSIVE spacesEnd(_, _)
spacesEnd(s, i) == IF i <= Len(s) /\ isSpace(s[i]) THEN spacesEnd(s, i + 1) ELSE i

\* /(\d+\.?\d*)\s*\/\s*(\d+)/ tried at index i of s: every quantifier is greedy
\* and no shorter choice of an earlier one lets a later part match, so the
\* attempt at i has one outcome.
matchAt(s, i) ==
    LET a == digitsEnd(s, i)                                   \* \d+
        b == IF a <= Len(s) /\ s[a] = "." THEN a + 1 ELSE a    \* \.?
        c == digitsEnd(s, b)                                   \* \d*
        d == spacesEnd(s, c)                                   \* \s*
        f == spacesEnd(s, d + 1)                               \* \/ \s*
        g == digitsEnd(s, f)                                   \* (\d+)
    IN  IF a > i /\ d <= Len(s) /\ s[d] = "/" /\ g > f
        THEN [ok |-> TRUE, m1 |-> SubSeq(s, i, c - 1), m2 |-> SubSeq(s, f, g - 1)]
        ELSE [ok |-> FALSE, m1 |-> <<>>, m2 |-> <<>>]

\* The last place the expression matches, where String.prototype.match takes
\* the first.
matchLast(s) ==
    LET hits == {i \in 1..Len(s) : matchAt(s, i).ok}
    IN  IF hits = {} THEN [ok |-> FALSE, m1 |-> <<>>, m2 |-> <<>>]
        ELSE matchAt(s, CHOOSE i \in hits : \A j \in hits : j <= i)

\* String.prototype.match without the g flag: the leftmost match, or null.
match(s) ==
    LET hits == {i \in 1..Len(s) : matchAt(s, i).ok}
    IN  IF hits = {} THEN [ok |-> FALSE, m1 |-> <<>>, m2 |-> <<>>]
        ELSE matchAt(s, CHOOSE i \in hits : \A j \in hits : i <= j)

RECURSIVE digitsToInt(_)
digitsToInt(ds) ==
    IF ds = <<>> THEN 0
    ELSE 10 * digitsToInt(SubSeq(ds, 1, Len(ds) - 1)) + digitValue(ds[Len(ds)])

RECURSIVE pow10(_)
pow10(n) == IF n = 0 THEN 1 ELSE 10 * pow10(n - 1)

\* parseFloat of digits with at most one point, as numerator and denominator.
parseFloat(ds) ==
    LET dots  == {i \in 1..Len(ds) : ds[i] = "."}
        whole == SelectSeq(ds, isDigit)
        frac  == IF dots = {} THEN 0 ELSE Len(ds) - (CHOOSE i \in dots : TRUE)
    IN  [n |-> digitsToInt(whole), d |-> pow10(frac)]

\* The documents res.json() can resolve to, by the shape that decides
\* json?.choices?.[0]?.message?.content: the value null, an object without
\* choices, an empty choices array, a choice without message, a message without
\* content, a content that is a string, and a content of another type that is
\* truthy (a number, an object) or falsy (0, null, false).
MissingShapes == {"null", "noChoices", "emptyChoices", "noMessage", "noContent"}

Json(shape, c) == [shape |-> shape, content |-> c]

\* `json?.choices?.[0]?.message?.content || ""`
contentOf(json) ==
    CASE json.shape \in MissingShapes      -> [isString |-> TRUE, str |-> <<>>]
      [] json.shape = "falsyNonString"     -> [isString |-> TRUE, str |-> <<>>]
      [] json.shape = "string"             -> [isString |-> TRUE, str |-> json.content]
      [] json.shape = "truthyNonString"    -> [isString |-> FALSE, str |-> <<>>]

\* Bound of the length of a response text.
MaxContentLen == 5

Contents == SeqsUpTo(ContentChars, MaxContentLen)

JsonDocs ==
    {Json(sh, <<>>) : sh \in MissingShapes \cup {"falsyNonString", "truthyNonString"}}
        \cup {Json("string", c) : c \in Contents}

Thrown == [threw |-> TRUE, score |-> 0, feedback |-> FixedFeedback("")]
Returned(sc, fb) == [threw |-> FALSE, score |-> sc, feedback |-> fb]

\* The score taken from a match, without the clamp to the maximum.
scoreFromMatchUnclamped(m, max) ==
    LET got   == parseFloat(m.m1)
        den   == digitsToInt(m.m2)
        denom == IF den = 0 THEN max ELSE den
    IN  MathRound(got.n * max, got.d * denom)

\* `Math.min(Math.round((got / denom) * max), max)` with
\* `denom = parseFloat(m[2]) || max`
scoreFromMatch(m, max) ==
    LET got   == parseFloat(m.m1)
        den   == digitsToInt(m.m2)
        denom == IF den = 0 THEN max ELSE den
    IN  Min(MathRound(got.n * max, got.d * denom), max)

\* The statements of the try block that follow `await res.json()`: a content
\* that is no string has no match method, and the call throws a TypeError.
afterJson(json, answer, rub) ==
    LET content == contentOf(json)
        max     == IF rub.maxScore = 0 THEN DefaultMaxScore ELSE rub.maxScore
    IN  IF ~content.isString THEN Thrown
        ELSE LET m == match(content.str)
             IN  Returned(IF m.ok THEN scoreFromMatch(m, max)
                                  ELSE scoreShortAnswer(answer, rub),
                          IF content.str /= <<>> THEN TextFeedback(content.str)
                                                 ELSE FixedFeedback(AIDefaultFeedback))

\* A catch block that scores 0 instead of falling back to the heuristic.
catchBlockZero(answer, rub) == Returned(0, FixedFeedback(NetworkFeedback))

\* The catch block of openAIGrade.
catchBlock(answer, rub) ==
    Returned(scoreShortAnswer(answer, rub), FixedFeedback(NetworkFeedback))

\* openAIGrade up to its first suspension: without a key it returns the
\* heuristic score; with one it issues the request.
GradeCall ==
    /\ pc = "call"
    /\ IF apiKey = ""
       THEN /\ graded' = <<Returned(scoreShortAnswer(text, rubric),
                                     FixedFeedback(HeuristicFeedback))>>
            /\ pc' = "done"
            /\ UNCHANGED requests
       ELSE /\ pc' = "fetch"
            /\ requests' = requests + 1
            /\ UNCHANGED graded
    /\ UNCHANGED <<argVars, scoreVars, recVars, runVars, appVars, chatVars, sessionVars, dockVars, apiKey, response>>

\* `await fetch(...)` rejects: a network failure.
FetchRejects ==
    /\ pc = "fetch"
    /\ response' = [stage |-> "fetchRejected", json |-> Json("null", <<>>)]
    /\ graded' = <<catchBlock(text, rubric)>>
    /\ pc' = "done"
    /\ UNCHANGED <<argVars, scoreVars, recVars, runVars, appVars, chatVars, sessionVars, dockVars, apiKey, requests>>

\* `await fetch(...)` resolves with a response, whatever its status.
FetchResolves ==
    /\ pc = "fetch"
    /\ pc' = "json"
    /\ UNCHANGED <<argVars, scoreVars, recVars, runVars, appVars, chatVars, sessionVars, dockVars, apiKey, response, graded, requests>>

\* `await res.json()` rejects: the body is no JSON.
JsonRejects ==
    /\ pc = "json"
    /\ response' = [stage |-> "jsonRejected", json |-> Json("null", <<>>)]
    /\ graded' = <<catchBlock(text, rubric)>>
    /\ pc' = "done"
    /\ UNCHANGED <<argVars, scoreVars, recVars, runVars, appVars, chatVars, sessionVars, dockVars, apiKey, requests>>

\* The call with the statements after `await res.json()` outside the try
\* block: what they throw leaves the call.
settleUncaught(json, answer, rub) == <<afterJson(json, answer, rub)>>

\* The result of the call once res.json() resolved to json: what the rest of
\* the try block returns, or the catch block's value when it throws.
settle(json, answer, rub) ==
    LET r == afterJson(json, answer, rub)
    IN  IF r.threw THEN <<catchBlock(answer, rub)>> ELSE <<r>>

\* `await res.json()` resolves.
JsonResolves ==
    /\ pc = "json"
    /\ \E json \in JsonDocs :
         /\ response' = [stage |-> "json", json |-> json]
         /\ graded' = settle(json, text, rubric)
    /\ pc' = "done"
    /\ UNCHANGED <<argVars, scoreVars, recVars, runVars, appVars, chatVars, sessionVars, dockVars, apiKey, requests>>

\* The inputs of the adapter: an empty answer and one that hits one criterion
\* of two; the maximum is that of a shipped short-answer question, 3 or 4.
GradeAnswers == {<<>>, <<"a">>}
GradeRubrics == {[criteria |-> <<<<"a">>, <<"B">>>>, maxScore |-> m] : m \in {3, 4}}
ApiKeys == {"", "sk-key"}

InitGrade ==
    /\ text \in GradeAnswers
    /\ rubric \in GradeRubrics
    /\ scored = NotScored
    /\ apiKey \in ApiKeys
    /\ pc = "call"
    /\ response = NoResponse
    /\ graded = <<>>
    /\ requests = 0
    /\ RecIdle
    /\ RunIdle
    /\ AppIdle
    /\ ChatIdle
    /\ SessionIdle
    /\ DockIdle

NextGrade == GradeCall \/ FetchRejects \/ FetchResolves \/ JsonRejects \/ JsonResolves

SpecGrade == InitGrade /\ [][NextGrade]_vars

\* ----------------------------------------------------------- tutor replies
\* assistantReply.  A text is the sequence of the pieces it is concatenated
\* from; a reply that is no string (a content that is a number or an object)
\* is marked so.

FixedReply(pieces) == [isString |-> TRUE, lit |-> pieces, str |-> <<>>]
TextReply(c) == [isString |-> TRUE, lit |-> <<>>, str |-> c]
NonStringReply == [isString |-> FALSE, lit |-> <<>>, str |-> <<>>]

\* The hints of the reply without a key ("-" stands for the dash of the
\* source, HintSeparator's "*" for its bullet).
hints ==
    << "Start by defining key terms in the question.",
       "Sketch a quick diagram if relevant (PPC, AD-AS, MSC/MPC).",
       "State the direction of shifts and the intuition before calculation.",
       "Conclude with a brief evaluation: assumptions, time horizon, stakeholders." >>

HintSeparator == "\n* "

\* Array.prototype.join, as the pieces of the joined text.
RECURSIVE join(_, _)
join(parts, sep) ==
    IF Len(parts) = 0 THEN <<>>
    ELSE IF Len(parts) = 1 THEN <<parts[1]>>
    ELSE <<parts[1], sep>> \o join(Tail(parts), sep)

\* The reply without a key.
nudges ==
    FixedReply(<<"Here are some nudges:", HintSeparator>>
                 \o join(hints, HintSeparator)
                 \o <<"\nIf you share your attempt, I can pinpoint what to adjust.">>)

NoResponseReply == FixedReply(<<"(No response)">>)

TroubleReply ==
    FixedReply(<<"I had trouble reaching the AI service, so here are heuristics: define terms, diagram, explain the mechanism, then evaluate trade-offs.">>)

\* A return statement that answers a document without a text as the catch
\* block does.
replyOfOrTrouble(json) ==
    CASE json.shape \in MissingShapes    -> TroubleReply
      [] json.shape = "falsyNonString"   -> TroubleReply
      [] json.shape = "string"           ->
            IF json.content = <<>> THEN TroubleReply ELSE TextReply(json.content)
      [] json.shape = "truthyNonString"  -> NonStringReply

\* `json?.choices?.[0]?.message?.content || "(No response)"`
replyOf(json) ==
    CASE json.shape \in MissingShapes    -> NoResponseReply
      [] json.shape = "falsyNonString"   -> NoResponseReply
      [] json.shape = "string"           ->
            IF json.content = <<>> THEN NoResponseReply ELSE TextReply(json.content)
      [] json.shape = "truthyNonString"  -> NonStringReply

notChatVars == <<argVars, scoreVars, recVars, runVars, appVars, sessionVars, dockVars>>

\* assistantReply up to its first suspension: without a key it returns the
\* hints; with one it issues the request.
ReplyCall ==
    /\ replyPc = "call"
    /\ IF apiKey = ""
       THEN /\ reply' = <<nudges>>
            /\ replyPc' = "done"
            /\ UNCHANGED requests
       ELSE /\ replyPc' = "fetch"
            /\ requests' = requests + 1
            /\ UNCHANGED reply
    /\ UNCHANGED <<notChatVars, apiKey, pc, response, graded, replyResponse>>

\* `await fetch(...)` rejects.
ReplyFetchRejects ==
    /\ replyPc = "fetch"
    /\ replyResponse' = [stage |-> "fetchRejected", json |-> Json("null", <<>>)]
    /\ reply' = <<TroubleReply>>
    /\ replyPc' = "done"
    /\ UNCHANGED <<notChatVars, gradeVars>>

\* `await fetch(...)` resolves with a response, whatever its status.
ReplyFetchResolves ==
    /\ replyPc = "fetch"
    /\ replyPc' = "json"
    /\ UNCHANGED <<notChatVars, gradeVars, replyResponse, reply>>

\* `await res.json()` rejects: the body is no JSON.
ReplyJsonRejects ==
    /\ replyPc = "json"
    /\ replyResponse' = [stage |-> "jsonRejected", json |-> Json("null", <<>>)]
    /\ reply' = <<TroubleReply>>
    /\ replyPc' = "done"
    /\ UNCHANGED <<notChatVars, gradeVars>>

\* `await res.json()` resolves; the return statement throws nothing.
ReplyJsonResolves ==
    /\ replyPc = "json"
    /\ \E json \in JsonDocs :
         /\ replyResponse' = [stage |-> "json", json |-> json]
         /\ reply' = <<replyOf(json)>>
    /\ replyPc' = "done"
    /\ UNCHANGED <<notChatVars, gradeVars>>

InitReply ==
    /\ apiKey \in ApiKeys
    /\ replyPc = "call"
    /\ replyResponse = NoResponse
    /\ reply = <<>>
    /\ pc = "idle" /\ response = NoResponse /\ graded = <<>> /\ requests = 0
    /\ text = <<>> /\ rubric = <<>> /\ scored = NotScored
    /\ RecIdle
    /\ RunIdle
    /\ AppIdle
    /\ SessionIdle
    /\ DockIdle

NextReply ==
    \/ ReplyCall
    \/ ReplyFetchRejects
    \/ ReplyFetchResolves
    \/ ReplyJsonRejects
    \/ ReplyJsonResolves

SpecReply == InitReply /\ [][NextReply]_vars

\* The got/total patterns of a text, stated on its substrings: a number
\* (digits, then optionally a point and digits), spaces, a slash, spaces,
\* digits.
RefDigits(w) == \A k \in 1..Len(w) : w[k] \in {"0", "1", "2", "3", "4", "5", "6", "7", "8", "9"}
RefSpaces(w) == \A k \in 1..Len(w) : w[k] = " "

RefNumber(x) ==
    \E q \in 1..Len(x) :
        /\ RefDigits(SubSeq(x, 1, q))
        /\ \/ q = Len(x)
           \/ x[q + 1] = "." /\ RefDigits(SubSeq(x, q + 2, Len(x)))

\* The ways w reads as a pattern: <<n, r>> with w[1..n] the number got and
\* w[r..] the digits of total.
RefParses(w) ==
    UNION { { nr \in (1..(p - 1)) \X ((p + 1)..Len(w)) :
                /\ RefNumber(SubSeq(w, 1, nr[1]))
                /\ RefSpaces(SubSeq(w, nr[1] + 1, p - 1))
                /\ RefSpaces(SubSeq(w, p + 1, nr[2] - 1))
                /\ RefDigits(SubSeq(w, nr[2], Len(w))) }
            : p \in {k \in 1..Len(w) : w[k] = "/"} }

RECURSIVE RefNat(_)
RefNat(ds) ==
    IF Len(ds) = 0 THEN 0 ELSE digitValue(ds[1]) * pow10(Len(ds) - 1) + RefNat(Tail(ds))

\* The occurrences of a pattern in s, each with the value it states:
\* got = gn/gd and total.
RefOccurrences(s) ==
    UNION { { LET w    == SubSeq(s, i, j)
                  got  == SubSeq(w, 1, nr[1])
                  dotp == {k \in 1..Len(got) : got[k] = "."}
                  ds   == SelectSeq(got, LAMBDA c : c /= ".")
              IN  [from  |-> i, to |-> j,
                   gn    |-> RefNat(ds),
                   gd    |-> IF dotp = {} THEN 1
                             ELSE pow10(Len(got) - (CHOOSE k \in dotp : TRUE)),
                   total |-> RefNat(SubSeq(w, nr[2], Len(w)))]
              : nr \in RefParses(SubSeq(s, i, j)) }
            : i \in 1..Len(s), j \in 1..Len(s) }

\* The first of a set of occurrences: the one that starts leftmost, and of
\* those the longest.
RefFirst(occ) ==
    CHOOSE o \in occ : \A x \in occ :
        o.from < x.from \/ (o.from = x.from /\ o.to >= x.to)

\* min(round-half-up(got / total * maxScore), maxScore)
RefRescaled(o, maxScore) ==
    LET exact == CHOOSE r \in 0..(o.gn * maxScore + 1) :
                   /\ 2 * o.gd * o.total * r <= 2 * o.gn * maxScore + o.gd * o.total
                   /\ 2 * o.gn * maxScore + o.gd * o.total < 2 * o.gd * o.total * (r + 1)
    IN  IF exact > maxScore THEN maxScore ELSE exact

\* The settled call: its result, and the response text when one was decoded.
Done == pc = "done" /\ graded /= <<>>
Result == graded[1]
HasText == response.stage = "json" /\ response.json.shape = "string"
ResponseText == response.json.content
Heuristic == scoreShortAnswer(text, rubric)

FeedbackIsString(fb) == (fb.lit /= "") /= (fb.str /= <<>>)

\* C5: whatever the credential and however the request ends, the call
\* resolves and never throws: its value has an integer score in
\* 0..maxScore and a feedback string.
C5_GradeNeverFails ==
    /\ pc \in {"call", "fetch", "json", "done"}
    /\ (pc = "done") = (graded /= <<>>)
    /\ pc = "done" =>
         /\ ~Result.threw
         /\ Result.score \in 0..rubric.maxScore
         /\ FeedbackIsString(Result.feedback)

\* C5's case: the response decodes to a content that is no string, the
\* TypeError is caught and the call still resolves.
C5_Witness ==
    /\ Done /\ apiKey /= "" /\ response.stage = "json"
    /\ response.json.shape = "truthyNonString"
    /\ ~Result.threw /\ Result.score = 2

\* The provider's score is used: a credential, a decoded text, a pattern in it.
ProviderUsed ==
    /\ apiKey /= "" /\ HasText
    /\ RefOccurrences(ResponseText) /= {}

C7_Original ==
    LET positive == {o \in RefOccurrences(ResponseText) : o.total > 0}
    IN  (Done /\ apiKey /= "" /\ HasText /\ positive /= {}) =>
            Result.score = RefRescaled(RefFirst(positive), rubric.maxScore)

\* C7, amended: with a credential and a text whose first pattern has
\* total > 0, the score is that first pattern's got / total * maxScore,
\* rounded half up and clamped to maxScore, so within 0..maxScore also when
\* got > total.  (A first pattern with total 0 is read as out of maxScore,
\* whatever patterns follow it.)
C7_RescaledFirstPattern ==
    (Done /\ apiKey /= "" /\ HasText /\ RefOccurrences(ResponseText) /= {}) =>
        LET first == RefFirst(RefOccurrences(ResponseText))
        IN  /\ Result.score \in 0..rubric.maxScore
            /\ first.total > 0 =>
                 Result.score = RefRescaled(first, rubric.maxScore)
            /\ first.total = 0 =>
                 Result.score = RefRescaled([first EXCEPT !.total = rubric.maxScore],
                                            rubric.maxScore)

\* C7's case: two patterns, the first with got > total: the score is clamped
\* to maxScore, not taken from the second pattern.
C7_Witness ==
    /\ Done /\ apiKey /= "" /\ HasText
    /\ ResponseText = <<"2", "/", "1", "/", "2">>
    /\ Result.score = rubric.maxScore /\ Heuristic /= rubric.maxScore

\* ---------------------------------------------------------- curriculum data

Q(id, type, answer, maxScore) ==
    [id |-> id, type |-> type, answer |-> answer, maxScore |-> maxScore]

\* The sections of the curriculum: id, lesson ids, test questions (a short
\* question has no answer index; 0 stands in its place and is never read).
curriculum ==
    << [id |-> "foundations",
        lessons |-> <<"scarcity-choice", "positive-normative", "models-methods">>,
        test |-> << Q("f1", "mcq", 2, 1), Q("f2", "short", 0, 3), Q("f3", "mcq", 2, 1),
                    Q("f4", "short", 0, 3), Q("f5", "mcq", 1, 1) >>],
       [id |-> "micro-markets",
        lessons |-> <<"demand-supply", "elasticities", "consumer-producer-surplus">>,
        test |-> << Q("m1", "mcq", 1, 1), Q("m2", "short", 0, 3), Q("m3", "mcq", 3, 1),
                    Q("m4", "short", 0, 3), Q("m5", "mcq", 0, 1) >>],
       [id |-> "micro-failure",
        lessons |-> <<"intervention", "failure", "firms">>,
        test |-> << Q("g1", "mcq", 1, 1), Q("g2", "short", 0, 3), Q("g3", "mcq", 1, 1),
                    Q("g4", "short", 0, 3), Q("g5", "mcq", 1, 1) >>],
       [id |-> "macro",
        lessons |-> <<"adas", "objectives", "policy">>,
        test |-> << Q("ma1", "mcq", 1, 1), Q("ma2", "short", 0, 3), Q("ma3", "mcq", 2, 1),
                    Q("ma4", "short", 0, 3), Q("ma5", "mcq", 1, 1) >>],
       [id |-> "global",
        lessons |-> <<"trade-theory", "fx", "bop">>,
        test |-> << Q("gl1", "mcq", 2, 1), Q("gl2", "short", 0, 3), Q("gl3", "mcq", 2, 1),
                    Q("gl4", "short", 0, 3), Q("gl5", "mcq", 2, 1) >>],
       [id |-> "development",
        lessons |-> <<"measures", "strategies", "aid-debt">>,
        test |-> << Q("dv1", "mcq", 1, 1), Q("dv2", "short", 0, 3), Q("dv3", "mcq", 3, 1),
                    Q("dv4", "short", 0, 3), Q("dv5", "mcq", 2, 1) >>] >>

\* An exam of the same questions with every short answer out of 3.
finalExamShortsOutOf3 ==
    << Q("E1", "mcq", 1, 1),  Q("E2", "short", 0, 3),  Q("E3", "mcq", 1, 1),
       Q("E4", "short", 0, 3), Q("E5", "mcq", 1, 1),   Q("E6", "short", 0, 3),
       Q("E7", "mcq", 2, 1),  Q("E8", "short", 0, 3),  Q("E9", "mcq", 0, 1),
       Q("E10", "short", 0, 3), Q("E11", "mcq", 1, 1), Q("E12", "short", 0, 3) >>

\* finalExam.questions
finalExam ==
    << Q("E1", "mcq", 1, 1),  Q("E2", "short", 0, 4),  Q("E3", "mcq", 1, 1),
       Q("E4", "short", 0, 4), Q("E5", "mcq", 1, 1),   Q("E6", "short", 0, 4),
       Q("E7", "mcq", 2, 1),  Q("E8", "short", 0, 3),  Q("E9", "mcq", 0, 1),
       Q("E10", "short", 0, 3), Q("E11", "mcq", 1, 1), Q("E12", "short", 0, 4) >>

\* The sum of a sequence of numbers (Array.prototype.reduce with +, from 0).
RECURSIVE SumSeq(_)
SumSeq(nums) == IF nums = <<>> THEN 0 ELSE Head(nums) + SumSeq(Tail(nums))

\* -------------------------------------------------------- recommendations

\* `map` of generateRecommendations, in the order Object.entries lists it.
recMap ==
    << [sec |-> "foundations",   ids |-> <<"E2">>],
       [sec |-> "micro-markets", ids |-> <<"E1", "E7">>],
       [sec |-> "micro-failure", ids |-> <<"E6", "E12", "E4">>],
       [sec |-> "macro",         ids |-> <<"E2", "E10">>],
       [sec |-> "global",        ids |-> <<"E3", "E11">>],
       [sec |-> "development",   ids |-> <<"E5", "E8">>] >>

\* The pass mark below which a section is weak, and the length of the list.
WeakBelow == 70
WeakLimit == 3
NoEvidenceScore == 100

\* `perQuestion[id] || 0`
awardedOr0(pq, id) == IF id \in DOMAIN pq THEN pq[id] ELSE 0

\* `finalExam.questions.find(q=>q.id===id)`: the first question of that id.
examById ==
    [id \in {finalExam[k].id : k \in 1..Len(finalExam)} |->
        finalExam[CHOOSE k \in 1..Len(finalExam) :
                    /\ finalExam[k].id = id
                    /\ \A j \in 1..(k - 1) : finalExam[j].id /= id]]

\* `finalExam.questions.find(q=>q.id===id)?.maxScore || 0`
maxScoreOr0(id) == IF id \in DOMAIN examById THEN examById[id].maxScore ELSE 0

\* The body of the loop over Object.entries(map): one section's score.
sectionScore(pq, ids) ==
    LET got == SumSeq([k \in 1..Len(ids) |-> awardedOr0(pq, ids[k])])
        max == SumSeq([k \in 1..Len(ids) |-> maxScoreOr0(ids[k])])
    IN  IF max > 0 THEN MathRound(got * 100, max) ELSE NoEvidenceScore

\* An insertion that puts x before the entries of equal score.
insertBeforeEqual(sorted, x) ==
    LET before == SelectSeq(sorted, LAMBDA e : e.score < x.score)
        after  == SelectSeq(sorted, LAMBDA e : e.score >= x.score)
    IN  before \o <<x>> \o after

\* Array.prototype.sort((a,b)=>a[1]-b[1]) is stable: an entry goes behind
\* the entries that do not score more and came before it.
insertByScore(sorted, x) ==
    LET before == SelectSeq(sorted, LAMBDA e : e.score <= x.score)
        after  == SelectSeq(sorted, LAMBDA e : e.score > x.score)
    IN  before \o <<x>> \o after

RECURSIVE sortByScore(_)
sortByScore(entries) ==
    IF entries = <<>> THEN <<>>
    ELSE insertByScore(sortByScore(SubSeq(entries, 1, Len(entries) - 1)),
                       entries[Len(entries)])

\* Array.prototype.slice(0, n)
slice0(seq, n) == SubSeq(seq, 1, Min(n, Len(seq)))

\* The recommender without its slice(0,3).
generateRecommendationsUncut(pq, percent) ==
    LET scoresBySection ==
            [k \in 1..Len(recMap) |->
                [sectionId |-> recMap[k].sec, score |-> sectionScore(pq, recMap[k].ids)]]
    IN  [overall |-> percent,
         weakSections |-> sortByScore(SelectSeq(scoresBySection,
                                                LAMBDA e : e.score < WeakBelow))]

generateRecommendations(pq, percent) ==
    LET scoresBySection ==
            [k \in 1..Len(recMap) |->
                [sectionId |-> recMap[k].sec, score |-> sectionScore(pq, recMap[k].ids)]]
        weak == slice0(sortByScore(SelectSeq(scoresBySection,
                                             LAMBDA e : e.score < WeakBelow)),
                       WeakLimit)
    IN  [overall |-> percent, weakSections |-> weak]

\* `Math.round((points / max) * 100)` of an assessment run.
percentOf(points, max) == MathRound(points * 100, max)

\* The per-question results a final exam can end with: 0 or maxScore on a
\* multiple-choice question, 0..maxScore on a short answer.
resultsOf(id) ==
    IF examById[id].type = "mcq" THEN {0, examById[id].maxScore}
    ELSE 0..examById[id].maxScore

PerQuestionResults ==
    [ E1 : resultsOf("E1"), E2 : resultsOf("E2"), E3 : resultsOf("E3"),
      E4 : resultsOf("E4"), E5 : resultsOf("E5"), E6 : resultsOf("E6"),
      E7 : resultsOf("E7"), E8 : resultsOf("E8"), E9 : resultsOf("E9"),
      E10 : resultsOf("E10"), E11 : resultsOf("E11"), E12 : resultsOf("E12") ]

InitRec ==
    /\ perQuestion \in PerQuestionResults
    /\ recs = <<>>
    /\ text = <<>> /\ rubric = <<>> /\ scored = NotScored
    /\ GradeIdle
    /\ RunIdle
    /\ AppIdle
    /\ ChatIdle
    /\ SessionIdle
    /\ DockIdle

\* The end of FinalExam.grade: the percent of the points awarded, and the
\* recommendations computed from the per-question results.
Recommend ==
    /\ recs = <<>>
    /\ LET points == SumSeq([k \in 1..Len(finalExam) |-> perQuestion[finalExam[k].id]])
           max    == SumSeq([k \in 1..Len(finalExam) |-> finalExam[k].maxScore])
       IN  recs' = <<generateRecommendations(perQuestion, percentOf(points, max))>>
    /\ UNCHANGED <<argVars, scoreVars, gradeVars, runVars, appVars, chatVars, sessionVars, dockVars, perQuestion>>

NextRec == Recommend

SpecRec == InitRec /\ [][NextRec]_vars

\* The reference recommender.  A section's position is its place in the
\* curriculum; its score is the rounded share of the points of its mapped
\* questions, or 100 without any.
Recs == recs[1]

\* n/d rounded to the nearest whole number, a half going up.
RefRounded(n, d) ==
    LET q == n \div d
    IN  IF 2 * (n - q * d) >= d THEN q + 1 ELSE q

RefSectionIndex(id) == CHOOSE k \in 1..Len(curriculum) : curriculum[k].id = id

RefMapped(k) ==
    LET rows == {r \in 1..Len(recMap) : recMap[r].sec = curriculum[k].id}
    IN  IF rows = {} THEN <<>> ELSE recMap[CHOOSE r \in rows : TRUE].ids

RefAwarded(pq, ids) == SumSeq([j \in 1..Len(ids) |-> pq[ids[j]]])
RefMax(ids) == SumSeq([j \in 1..Len(ids) |-> examById[ids[j]].maxScore])

RefSectionScore(pq, k) ==
    LET ids == RefMapped(k)
        got == RefAwarded(pq, ids)
        max == RefMax(ids)
    IN  IF Len(ids) = 0 \/ max = 0 THEN 100 ELSE RefRounded(100 * got, max)

\* The scores of the six sections, in curriculum order.
RefScores(pq) == [k \in 1..Len(curriculum) |-> RefSectionScore(pq, k)]

\* The number of weak sections listed before section k: those that score
\* less, and those that score the same and stand earlier in the curriculum.
RefRank(sc, k) ==
    Cardinality({j \in DOMAIN sc :
                    /\ sc[j] < 70
                    /\ sc[j] < sc[k] \/ (sc[j] = sc[k] /\ j < k)})

RefPercent(pq) ==
    LET got == SumSeq([j \in 1..Len(finalExam) |-> pq[finalExam[j].id]])
        max == SumSeq([j \in 1..Len(finalExam) |-> finalExam[j].maxScore])
    IN  RefRounded(100 * got, max)

\* C8: the recommender returns the reference's result: the weak sections are
\* the sections that score below 70, weakest first, equal scores in
\* curriculum order, the first three of them; overall is the exam's percent.
C8_RecommenderEqualsReference ==
    recs /= <<>> =>
        LET weak == Recs.weakSections
            sc   == RefScores(perQuestion)
            n    == Cardinality({k \in DOMAIN sc : sc[k] < 70})
        IN  /\ Recs.overall = RefPercent(perQuestion)
            /\ Len(weak) = Min(3, n)
            /\ \A r \in 1..Len(weak) :
                 LET k == RefSectionIndex(weak[r].sectionId)
                 IN  /\ sc[k] < 70
                     /\ RefRank(sc, k) = r - 1
                     /\ weak[r].score = sc[k]

\* C8's case: more than three weak sections, the weakest not the first of
\* the curriculum, and two of the listed ones with the same score.
C8_Witness ==
    /\ recs /= <<>>
    /\ Cardinality({k \in 1..Len(curriculum) : RefScores(perQuestion)[k] < 70}) > 3
    /\ Len(Recs.weakSections) = 3
    /\ Recs.weakSections[1].sectionId = "macro"
    /\ Recs.weakSections[1].score < Recs.weakSections[2].score
    /\ Recs.weakSections[2].score = Recs.weakSections[3].score

\* C9: at most three weak sections are returned, each with a score below 70
\* and within 0..100, and the scores do not decrease along the list.
C9_WeakSectionsBounded ==
    recs /= <<>> =>
        LET weak == Recs.weakSections
        IN  /\ Len(weak) <= 3
            /\ \A r \in 1..Len(weak) : weak[r].score \in 0..69
            /\ \A r \in 1..(Len(weak) - 1) : weak[r].score <= weak[r + 1].score

\* C9's case: five sections score below 70 and the list holds three of
\* them, of rising scores.
C9_Witness ==
    /\ recs /= <<>>
    /\ Cardinality({k \in 1..Len(recMap) :
                      sectionScore(perQuestion, recMap[k].ids) < WeakBelow}) = 5
    /\ Len(Recs.weakSections) = 3
    /\ Recs.weakSections[1].score < Recs.weakSections[2].score
    /\ Recs.weakSections[2].score < Recs.weakSections[3].score

\* ------------------------------------------------------- assessment runs
\* SectionTest and FinalExam.  A click on Submit starts `grade`, which walks
\* the questions in order: a multiple-choice question is marked at once, a
\* short answer is sent to openAIGrade and the call is suspended until the
\* adapter settles.  The text typed into a short answer reaches the adapter
\* only; here the adapter settles with any score it can return.

CorrectFeedback == "Correct"
CheckFeedback == "Check the definition/mechanism and try again."

answerIsGiven(ans, q) == q.id \in DOMAIN ans

\* `answers[q.id]===q.answer`: a question without an answer is undefined.
answerIsCorrect(ans, q) == q.id \in DOMAIN ans /\ ans[q.id] = q.answer

\* `{ ...a, [qid]: val }`
withAnswer(a, qid, val) == (qid :> val) @@ a

\* The options clicked in a section test: the correct one and another one.
TestChoices(q) == {q.answer, IF q.answer = 0 THEN 1 ELSE 0}

\* The options clicked in the final exam.
ExamChoices(q) == {q.answer}

\* What openAIGrade can settle with on a section-test question.
TestAdapterResults(q) == [score : 0..q.maxScore, feedback : {HeuristicFeedback}]

\* What openAIGrade settles with on an exam question, here.
ExamAdapterResults(q) == [score : {0, q.maxScore}, feedback : {HeuristicFeedback}]

McqOf(qs) == {qs[k] : k \in {j \in 1..Len(qs) : qs[j].type = "mcq"}}

\* The loop of SectionTest.grade from question st.i on, up to the next
\* await (st.i is then the short answer waited for) or past the last one.
RECURSIVE sectionGradeLoop(_, _, _)
sectionGradeLoop(qs, ans, st) ==
    IF st.i > Len(qs) THEN st
    ELSE LET q   == qs[st.i]
             st1 == [st EXCEPT !.max = @ + q.maxScore]
         IN  IF q.type = "mcq"
             THEN LET correct == answerIsCorrect(ans, q)
                  IN  sectionGradeLoop(qs, ans,
                        [st1 EXCEPT !.points = @ + (IF correct THEN q.maxScore ELSE 0),
                                    !.feedback = withAnswer(@, q.id,
                                        IF correct THEN CorrectFeedback ELSE CheckFeedback),
                                    !.i = @ + 1])
             ELSE st1

\* The loop of FinalExam.grade, likewise.
RECURSIVE examGradeLoop(_, _, _)
examGradeLoop(qs, ans, st) ==
    IF st.i > Len(qs) THEN st
    ELSE LET q   == qs[st.i]
             st1 == [st EXCEPT !.max = @ + q.maxScore]
         IN  IF q.type = "mcq"
             THEN LET ok == answerIsCorrect(ans, q)
                  IN  examGradeLoop(qs, ans,
                        [st1 EXCEPT !.points = @ + (IF ok THEN q.maxScore ELSE 0),
                                    !.perQuestion = withAnswer(@, q.id,
                                        IF ok THEN q.maxScore ELSE 0),
                                    !.i = @ + 1])
             ELSE st1

\* A grade call that sends every short answer from st.i on at once.
openAIGradeAllAtOnce(st, key) ==
    IF st.i > Len(st.questions) \/ key = "" THEN st
    ELSE LET rest == {st.questions[j].id :
                        j \in {k \in st.i..Len(st.questions) :
                                  st.questions[k].type /= "mcq"}}
         IN  [st EXCEPT !.outstanding = @ \cup rest,
                        !.requested = @ \o <<st.questions[st.i].id>>]

\* A grade call that sends the short answer whatever the key.
openAIGradeWhateverKey(st, key) ==
    IF st.i > Len(st.questions) THEN st
    ELSE [st EXCEPT !.outstanding = @ \cup {st.questions[st.i].id},
                    !.requested = Append(@, st.questions[st.i].id)]

\* `await openAIGrade({ ..., apiKey: settings.apiKey })` where the loop
\* stopped: with a key the adapter issues one request for question st.i, which
\* is outstanding until the adapter settles.
openAIGradeCalled(st, key) ==
    IF st.i > Len(st.questions) \/ key = "" THEN st
    ELSE [st EXCEPT !.outstanding = @ \cup {st.questions[st.i].id},
                    !.requested = Append(@, st.questions[st.i].id)]

notRunVars == <<argVars, scoreVars, gradeVars, recVars, appVars, chatVars, sessionVars, dockVars>>

\* `section.test.questions` of the mounted section test.
sectionQuestions ==
    IF component = "SectionTest" THEN curriculum[section].test ELSE <<>>

\* Mounting <SectionTest section={curriculum[k]}/>: fresh component state.
MountSectionTest(k) ==
    /\ component = "none" /\ run = <<>>
    /\ component' = "SectionTest"
    /\ section' = k
    /\ answers' = <<>>
    /\ submitting' = FALSE
    /\ UNCHANGED <<run, submitted, notRunVars>>

\* Mounting <FinalExam/>.
MountFinalExam ==
    /\ component = "none" /\ run = <<>>
    /\ component' = "FinalExam"
    /\ section' = 0
    /\ answers' = <<>>
    /\ submitting' = FALSE
    /\ UNCHANGED <<run, submitted, notRunVars>>

\* SectionTest.handleChange from a multiple-choice question.
TestHandleChange(q, val) ==
    /\ component = "SectionTest"
    /\ q \in McqOf(sectionQuestions)
    /\ answers' = withAnswer(answers, q.id, val)
    /\ UNCHANGED <<component, section, submitting, run, submitted, notRunVars>>

\* FinalExam.handleChange from a multiple-choice question.
ExamHandleChange(q, val) ==
    /\ component = "FinalExam"
    /\ answers' = withAnswer(answers, q.id, val)
    /\ UNCHANGED <<component, section, submitting, run, submitted, notRunVars>>

\* What happens when a grade call comes to its end: the percent, the flag
\* is cleared, onSubmit is called and the parent leaves the assessment.
sectionGradeEnd(st) ==
    [percent |-> percentOf(st.points, st.max), feedback |-> st.feedback]

examGradeEnd(st) ==
    LET percent == percentOf(st.points, st.max)
    IN  [percent |-> percent, perQuestion |-> st.perQuestion,
         recommendations |-> generateRecommendations(st.perQuestion, percent)]

\* A click on Submit of the section test: grade runs to its first await.
TestGrade ==
    /\ component = "SectionTest" /\ ~submitting
    /\ LET qs == sectionQuestions
           st == sectionGradeLoop(qs, answers,
                    [questions |-> qs, answers |-> answers, i |-> 1,
                     points |-> 0, max |-> 0, feedback |-> <<>>, scores |-> <<>>,
                     outstanding |-> {}, requested |-> <<>>])
       IN  /\ st.i <= Len(qs)
           /\ run' = <<openAIGradeCalled(st, apiKey)>>
    /\ submitting' = TRUE
    /\ UNCHANGED <<component, section, answers, submitted, notRunVars>>

\* A click on Submit Exam.
ExamGrade ==
    /\ component = "FinalExam" /\ ~submitting
    /\ LET qs == finalExam
           st == examGradeLoop(qs, answers,
                    [questions |-> qs, answers |-> answers, i |-> 1,
                     points |-> 0, max |-> 0, perQuestion |-> <<>>, scores |-> <<>>,
                     outstanding |-> {}, requested |-> <<>>])
       IN  /\ st.i <= Len(qs)
           /\ run' = <<openAIGradeCalled(st, apiKey)>>
    /\ submitting' = TRUE
    /\ UNCHANGED <<component, section, answers, submitted, notRunVars>>

\* The adapter settles with res and SectionTest.grade goes on: to the next
\* await, or to its end.  (scores keeps what the adapter returned.)
TestGradeResumes(res) ==
    /\ component = "SectionTest" /\ run /= <<>> /\ submitted = <<>>
    /\ LET r  == run[1]
           q  == r.questions[r.i]
           st == sectionGradeLoop(r.questions, r.answers,
                    [r EXCEPT !.points = @ + res.score,
                              !.feedback = withAnswer(@, q.id, res.feedback),
                              !.scores = withAnswer(@, q.id, res.score),
                              !.outstanding = @ \ {q.id},
                              !.i = @ + 1])
       IN  /\ res \in TestAdapterResults(q)
           /\ run' = <<openAIGradeCalled(st, apiKey)>>
           /\ IF st.i > Len(st.questions)
              THEN /\ submitted' = <<sectionGradeEnd(st)>>
                   /\ submitting' = FALSE
                   /\ component' = "none"
                   /\ answers' = <<>>
              ELSE UNCHANGED <<submitted, submitting, component, answers>>
    /\ UNCHANGED <<section, notRunVars>>

\* The adapter settles with res and FinalExam.grade goes on.
ExamGradeResumes(res) ==
    /\ component = "FinalExam" /\ run /= <<>> /\ submitted = <<>>
    /\ LET r  == run[1]
           q  == r.questions[r.i]
           st == examGradeLoop(r.questions, r.answers,
                    [r EXCEPT !.points = @ + res.score,
                              !.perQuestion = withAnswer(@, q.id, res.score),
                              !.scores = withAnswer(@, q.id, res.score),
                              !.outstanding = @ \ {q.id},
                              !.i = @ + 1])
       IN  /\ res \in ExamAdapterResults(q)
           /\ run' = <<openAIGradeCalled(st, apiKey)>>
           /\ IF st.i > Len(st.questions)
              THEN /\ submitted' = <<examGradeEnd(st)>>
                   /\ submitting' = FALSE
                   /\ component' = "none"
                   /\ answers' = <<>>
              ELSE UNCHANGED <<submitted, submitting, component, answers>>
    /\ UNCHANGED <<section, notRunVars>>

\* The result is taken; the next assessment may be opened.
Dismiss ==
    /\ submitted /= <<>>
    /\ run' = <<>> /\ submitted' = <<>>
    /\ UNCHANGED <<component, section, answers, submitting, notRunVars>>

InitRun ==
    /\ RunIdle
    /\ AppIdle
    /\ text = <<>> /\ rubric = <<>> /\ scored = NotScored
    /\ GradeIdle
    /\ RecIdle
    /\ ChatIdle
    /\ SessionIdle
    /\ DockIdle

NextRun ==
    \/ \E k \in 1..Len(curriculum) : MountSectionTest(k)
    \/ MountFinalExam
    \/ \E k \in 1..Len(curriculum) : \E q \in McqOf(curriculum[k].test) :
          \E val \in TestChoices(q) : TestHandleChange(q, val)
    \/ \E q \in McqOf(finalExam) :
          \E val \in ExamChoices(q) : ExamHandleChange(q, val)
    \/ TestGrade
    \/ ExamGrade
    \/ \E res \in [score : 0..MaxScoreBound, feedback : {HeuristicFeedback}] :
          TestGradeResumes(res)
    \/ \E res \in [score : 0..MaxScoreBound, feedback : {HeuristicFeedback}] :
          ExamGradeResumes(res)
    \/ Dismiss

SpecRun == InitRun /\ [][NextRun]_vars

\* The assessments of a session with or without a key in its settings.
InitOrder ==
    /\ RunIdle
    /\ AppIdle
    /\ text = <<>> /\ rubric = <<>> /\ scored = NotScored
    /\ apiKey \in ApiKeys
    /\ pc = "idle" /\ response = NoResponse /\ graded = <<>> /\ requests = 0
    /\ RecIdle
    /\ ChatIdle
    /\ SessionIdle
    /\ DockIdle

SpecOrder == InitOrder /\ [][NextRun]_vars

\* Assessments over question sets of multiple-choice questions only: the
\* `section` prop of SectionTest is any section, and the loop of
\* FinalExam.grade is the same loop over its question list.
MaxQuestions == 3

McqIds == <<"q1", "q2", "q3", "q4">>

\* The sets of 1..MaxQuestions multiple-choice questions, the k-th with id
\* McqIds[k], a correct index 0 or 1 and a maxScore of 1 or 2.
McqSets ==
    UNION { { [k \in 1..n |-> Q(McqIds[k], "mcq", f[k].answer, f[k].maxScore)] :
                f \in [1..n -> [answer : {0, 1}, maxScore : {1, 2}]] } :
            n \in 1..MaxQuestions }

\* The states of `answers` over a set: any of its questions answered 0 or 1.
AnswersOver(qs) ==
    UNION { [ids -> {0, 1}] : ids \in SUBSET {qs[k].id : k \in 1..Len(qs)} }

\* SectionTest over the questions qs with the answers ans: a click on Submit;
\* grade meets no await and calls onSubmit.
GradeMcqTest(qs, ans) ==
    /\ component = "none" /\ run = <<>>
    /\ LET st == sectionGradeLoop(qs, ans,
                    [questions |-> qs, answers |-> ans, i |-> 1,
                     points |-> 0, max |-> 0, feedback |-> <<>>, scores |-> <<>>,
                     outstanding |-> {}, requested |-> <<>>])
       IN  /\ st.i > Len(qs)
           /\ run' = <<openAIGradeCalled(st, apiKey)>>
           /\ submitted' = <<sectionGradeEnd(st)>>
    /\ UNCHANGED <<component, section, answers, submitting, notRunVars>>

\* The loop and the end of FinalExam.grade over the questions qs.
GradeMcqExam(qs, ans) ==
    /\ component = "none" /\ run = <<>>
    /\ LET st == examGradeLoop(qs, ans,
                    [questions |-> qs, answers |-> ans, i |-> 1,
                     points |-> 0, max |-> 0, perQuestion |-> <<>>, scores |-> <<>>,
                     outstanding |-> {}, requested |-> <<>>])
       IN  /\ st.i > Len(qs)
           /\ run' = <<openAIGradeCalled(st, apiKey)>>
           /\ submitted' = <<examGradeEnd(st)>>
    /\ UNCHANGED <<component, section, answers, submitting, notRunVars>>

NextMcq ==
    \/ \E qs \in McqSets : \E ans \in AnswersOver(qs) : GradeMcqTest(qs, ans)
    \/ \E qs \in McqSets : \E ans \in AnswersOver(qs) : GradeMcqExam(qs, ans)
    \/ Dismiss

SpecMcq == InitOrder /\ [][NextMcq]_vars

\* ChatDock.send: the question is handed to assistantReply with the key of
\* the settings.
Send ==
    /\ replyPc \in {"idle", "done"}
    /\ replyPc' = "call"
    /\ replyResponse' = NoResponse
    /\ reply' = <<>>
    /\ UNCHANGED <<notChatVars, gradeVars>>

\* A session whose settings hold no key: assessments are taken and the tutor
\* is asked, in any order.
InitOffline ==
    /\ RunIdle
    /\ AppIdle
    /\ text = <<>> /\ rubric = <<>> /\ scored = NotScored
    /\ GradeIdle
    /\ RecIdle
    /\ ChatIdle
    /\ SessionIdle
    /\ DockIdle

NextOffline ==
    \/ \E k \in 1..Len(curriculum) : MountSectionTest(k)
    \/ MountFinalExam
    \/ \E k \in 1..Len(curriculum) : \E q \in McqOf(curriculum[k].test) :
          \E val \in TestChoices(q) : TestHandleChange(q, val)
    \/ \E q \in McqOf(finalExam) :
          \E val \in ExamChoices(q) : ExamHandleChange(q, val)
    \/ TestGrade
    \/ ExamGrade
    \/ \E res \in [score : 0..MaxScoreBound, feedback : {HeuristicFeedback}] :
          TestGradeResumes(res)
    \/ \E res \in [score : 0..MaxScoreBound, feedback : {HeuristicFeedback}] :
          ExamGradeResumes(res)
    \/ Dismiss
    \/ Send
    \/ ReplyCall

SpecOffline == InitOffline /\ [][NextOffline]_vars

\* What the finished run was given and what it reported.
Finished == submitted /= <<>>
Report == submitted[1]
RunQuestions == run[1].questions
RunAnswers == run[1].answers
AdapterScores == run[1].scores

\* The points a question awards by the rule: a multiple-choice question its
\* maxScore exactly when the stored answer is the correct index, a short
\* answer the score the grading adapter returned for it.
RefAwardedOn(q) ==
    IF q.type = "mcq"
    THEN IF q.id \in DOMAIN RunAnswers /\ RunAnswers[q.id] = q.answer
         THEN q.maxScore ELSE 0
    ELSE AdapterScores[q.id]

RefSumAwarded == SumSeq([k \in 1..Len(RunQuestions) |-> RefAwardedOn(RunQuestions[k])])
RefSumMax == SumSeq([k \in 1..Len(RunQuestions) |-> RunQuestions[k].maxScore])

defaultProgress ==
    [lessonsCompleted |-> {}, sectionScores |-> <<>>,
     exam |-> [attempts |-> 0, best |-> 0]]

\* The second argument of loadLS(LS_SETTINGS_KEY, ...).
defaultSettings == [apiKey |-> "", name |-> ""]

\* The value null; an object is the function from its keys to their values.
Null == [null |-> TRUE]

\* A text held by localStorage: an object's text with its members, the text
\* null, a text that is no JSON, the empty text.  (Kind "unreadable" is no
\* text: getItem throws.)
Text(kind) == [kind |-> kind, members |-> <<>>]
ObjectText(members) == [kind |-> "object", members |-> members]

\* The keys of the stored objects, in the order their literals list them.
KeyOrder == <<"lessonsCompleted", "sectionScores", "exam", "apiKey", "name">>

\* JSON.stringify of a Progress or Settings value: its members in key order.
stringify(value) ==
    IF value = Null THEN Text("null")
    ELSE LET keys == SelectSeq(KeyOrder, LAMBDA k : k \in DOMAIN value)
         IN  ObjectText([i \in 1..Len(keys) |-> <<keys[i], value[keys[i]]>>])

\* JSON.parse of a text that is JSON: null, or the object of the members
\* read, a later one replacing an earlier one of the same key.
parse(raw) ==
    IF raw.kind = "null" THEN Null
    ELSE LET m == raw.members
         IN  [k \in {m[i][1] : i \in 1..Len(m)} |->
                m[CHOOSE i \in 1..Len(m) :
                    m[i][1] = k /\ \A j \in (i + 1)..Len(m) : m[j][1] /= k][2]]

\* loadLS(key, fallback) with `item` what localStorage holds under the key
\* (<<>>: nothing, getItem returns null): the fallback when getItem throws,
\* when the text is empty (falsy) and when JSON.parse throws; whatever the
\* text parses to otherwise.
loadLS(item, fallback) ==
    IF item = <<>> \/ item[1].kind \in {"unreadable", "empty", "garbage"}
    THEN fallback
    ELSE parse(item[1])

\* `${currentSection.id}_${currentLesson.id}`: the ids hold no underscore,
\* so the key is the pair.
lessonKey(sectionIndex, lessonIndex) ==
    <<curriculum[sectionIndex + 1].id, curriculum[sectionIndex + 1].lessons[lessonIndex + 1]>>

\* `p.sectionScores[id]?.attempts || 0` and `p.sectionScores[id]?.best || 0`
attemptsOr0(p, id) ==
    IF id \in DOMAIN p.sectionScores THEN p.sectionScores[id].attempts ELSE 0

bestOr0(p, id) ==
    IF id \in DOMAIN p.sectionScores THEN p.sectionScores[id].best ELSE 0

\* An updater that flips the flag.
withLessonToggled(p, key) ==
    [p EXCEPT !.lessonsCompleted =
        IF key \in @ THEN @ \ {key} ELSE @ \cup {key}]

\* The updater of markLessonComplete.
withLessonComplete(p, key) ==
    [p EXCEPT !.lessonsCompleted = @ \cup {key}]

sectionRecordLatest(p, id, percent) ==
    [attempts |-> attemptsOr0(p, id) + 1, best |-> percent]

\* The record a section-test submission leaves.
sectionRecord(p, id, percent) ==
    [attempts |-> attemptsOr0(p, id) + 1, best |-> Max(bestOr0(p, id), percent)]

\* A recording from the Progress value of the first render, where the source
\* passes setProgress an updater.
withSectionTestStale(p, id, percent) ==
    [p EXCEPT !.sectionScores = (id :> sectionRecord(defaultProgress, id, percent)) @@ @]

\* The updater of onSectionTestSubmit.
withSectionTest(p, id, percent) ==
    [p EXCEPT !.sectionScores = (id :> sectionRecord(p, id, percent)) @@ @]

\* An updater that returns the exam record without the rest of p.
withExamAlone(p, percent) ==
    [defaultProgress EXCEPT !.exam = [attempts |-> p.exam.attempts + 1,
                                      best |-> Max(p.exam.best, percent)]]

\* The updater of onFinalExamSubmit.
withExam(p, percent) ==
    [p EXCEPT !.exam = [attempts |-> p.exam.attempts + 1,
                        best |-> Max(p.exam.best, percent)]]

\* The sections selected, the points section tests and the exam end with,
\* and the number of submissions recorded.
SectionPool == {0, 1}
TestPoints == {4, 5, 8}
ExamPoints == {12, 25}
MaxSubmissions == 3

maxOf(qs) == SumSeq([k \in 1..Len(qs) |-> qs[k].maxScore])

RecordNames == {curriculum[k].id : k \in 1..Len(curriculum)} \cup {"exam"}

totalAttempts(p) ==
    p.exam.attempts
      + SumSeq([k \in 1..Len(curriculum) |-> attemptsOr0(p, curriculum[k].id)])

\* The component mounts: state from localStorage, the save effect to run.
InitApp ==
    /\ stored = <<>>
    /\ written = <<>>
    /\ progress = loadLS(stored, defaultProgress)
    /\ view = [mode |-> "home", sectionIndex |-> 0, lessonIndex |-> 0]
    /\ pending = TRUE
    /\ history = [r \in RecordNames |-> <<>>]
    /\ text = <<>> /\ rubric = <<>> /\ scored = NotScored
    /\ GradeIdle
    /\ RecIdle
    /\ RunIdle
    /\ ChatIdle
    /\ SessionIdle
    /\ DockIdle

notAppVars == <<argVars, scoreVars, gradeVars, recVars, runVars, chatVars, sessionVars, dockVars>>

\* Sidebar onSelect(i), and Start on the home page.
OnSelect(i) ==
    /\ view' = [mode |-> "section", sectionIndex |-> i, lessonIndex |-> 0]
    /\ UNCHANGED <<progress, pending, stored, written, history, notAppVars>>

\* markLessonComplete, from the lesson shown.
MarkLessonComplete ==
    /\ view.mode = "section"
    /\ progress' = withLessonComplete(progress, lessonKey(view.sectionIndex, view.lessonIndex))
    /\ pending' = TRUE
    /\ UNCHANGED <<view, stored, written, history, notAppVars>>

\* onSectionTestSubmit({percent}) of the render in which section
\* sectionIndex was the current one.
OnSectionTestSubmit(sectionIndex, percent) ==
    /\ totalAttempts(progress) < MaxSubmissions
    /\ LET id == curriculum[sectionIndex + 1].id
       IN  /\ progress' = withSectionTest(progress, id, percent)
           /\ history' = [history EXCEPT ![id] = Append(@, percent)]
    /\ view' = [view EXCEPT !.mode = "section"]
    /\ pending' = TRUE
    /\ UNCHANGED <<stored, written, notAppVars>>

\* onFinalExamSubmit({percent}).
OnFinalExamSubmit(percent) ==
    /\ totalAttempts(progress) < MaxSubmissions
    /\ progress' = withExam(progress, percent)
    /\ history' = [history EXCEPT !["exam"] = Append(@, percent)]
    /\ view' = [view EXCEPT !.mode = "dashboard"]
    /\ pending' = TRUE
    /\ UNCHANGED <<stored, written, notAppVars>>

\* The effect on [progress]: saveLS(LS_KEY, progress), setItem succeeding.
SaveEffect ==
    /\ pending
    /\ stored' = <<stringify(progress)>>
    /\ written' = <<progress>>
    /\ pending' = FALSE
    /\ UNCHANGED <<progress, view, history, notAppVars>>

\* The same effect, setItem throwing: saveLS catches and does nothing.
SaveEffectFails ==
    /\ pending
    /\ pending' = FALSE
    /\ UNCHANGED <<progress, view, stored, written, history, notAppVars>>

\* The page is closed or crashes, and the application is opened again.
Restart ==
    /\ progress' = loadLS(stored, defaultProgress)
    /\ view' = [mode |-> "home", sectionIndex |-> 0, lessonIndex |-> 0]
    /\ pending' = TRUE
    /\ history' = [r \in RecordNames |-> <<>>]
    /\ UNCHANGED <<stored, written, notAppVars>>

NextRecord ==
    \/ \E i \in SectionPool : OnSelect(i)
    \/ MarkLessonComplete
    \/ \E i \in SectionPool : \E pts \in TestPoints :
          OnSectionTestSubmit(i, percentOf(pts, maxOf(curriculum[i + 1].test)))
    \/ \E pts \in ExamPoints : OnFinalExamSubmit(percentOf(pts, maxOf(finalExam)))
    \/ SaveEffect

SpecRecord == InitApp /\ [][NextRecord]_vars

NextPersist == NextRecord \/ SaveEffectFails \/ Restart

SpecPersist == InitApp /\ [][NextPersist]_vars

\* ------------------------------------------------------------- the start
\* IbEconTutor mounts over whatever localStorage holds, renders, and the
\* user moves between the views.

\* A Progress value with records, and one without its exam member.
RecordedProgress ==
    [lessonsCompleted |-> {lessonKey(0, 0)},
     sectionScores |-> ("foundations" :> [attempts |-> 2, best |-> 56]),
     exam |-> [attempts |-> 1, best |-> 43]]

ProgressWithoutExam == [lessonsCompleted |-> {}, sectionScores |-> <<>>]

\* What localStorage can hold under LS_KEY and under LS_SETTINGS_KEY.
ProgressItems ==
    { <<>>, <<Text("unreadable")>>, <<Text("empty")>>, <<Text("garbage")>>,
      <<Text("null")>>, <<ObjectText(<<>>)>>, <<stringify(ProgressWithoutExam)>>,
      <<stringify(defaultProgress)>>, <<stringify(RecordedProgress)>> }

SettingsItems ==
    { <<>>, <<Text("unreadable")>>, <<Text("empty")>>, <<Text("garbage")>>,
      <<Text("null")>>, <<ObjectText(<<>>)>>,
      <<stringify(defaultSettings)>>,
      <<stringify([apiKey |-> "sk-key", name |-> "Ana"])>> }

\* Reading member k of value v throws when v is null or undefined.
has(v, k) == v /= Null /\ k \in DOMAIN v

\* The error rendering IbEconTutor throws, if any: Sidebar reads
\* progress.sectionScores[s.id] in every view; the home page reads
\* settings.name, the lesson page progress.lessonsCompleted[key], Dashboard
\* that and progress.exam.best, Settings settings.apiKey.
renderError(p, s, v) ==
    IF \/ ~has(p, "sectionScores")
       \/ v.mode = "home" /\ s = Null
       \/ v.mode = "section" /\ ~has(p, "lessonsCompleted")
       \/ v.mode = "dashboard" /\ (~has(p, "lessonsCompleted") \/ ~has(p, "exam"))
       \/ v.mode = "settings" /\ s = Null
    THEN "TypeError"
    ELSE NoError

HomeView == [mode |-> "home", sectionIndex |-> 0, lessonIndex |-> 0]

\* The component mounts and renders the home page; when the render throws
\* nothing is committed and no effect runs.
InitStart ==
    /\ stored \in ProgressItems
    /\ storedSettings \in SettingsItems
    /\ written = <<>>
    /\ progress = loadLS(stored, defaultProgress)
    /\ settings = loadLS(storedSettings, defaultSettings)
    /\ view = HomeView
    /\ thrown = renderError(progress, settings, view)
    /\ pending = (thrown = NoError)
    /\ history = [r \in RecordNames |-> <<>>]
    /\ calls = <<>>
    /\ text = <<>> /\ rubric = <<>> /\ scored = NotScored
    /\ GradeIdle
    /\ RecIdle
    /\ RunIdle
    /\ ChatIdle
    /\ DockIdle

\* The views the header, the sidebar and the home page lead to.
StartViews ==
    {[mode |-> "section", sectionIndex |-> i, lessonIndex |-> 0] : i \in SectionPool}
        \cup {HomeView}

StartModes == {"section", "dashboard", "exam", "settings"}

\* Sidebar onSelect, Start and onOpenHome: the view is replaced and the
\* component renders again.
Navigate(v) ==
    /\ thrown = NoError
    /\ view' = v
    /\ thrown' = renderError(progress, settings, v)
    /\ pending' = (pending /\ thrown' = NoError)
    /\ UNCHANGED <<progress, stored, written, history, settings, storedSettings,
                   calls, argVars, scoreVars, gradeVars, recVars, runVars, chatVars, dockVars>>

\* onNav, onOpenDashboard, onOpenExam, onOpenSettings: the mode is replaced
\* and the component renders again.
OpenMode(mode) ==
    /\ thrown = NoError
    /\ view' = [view EXCEPT !.mode = mode]
    /\ thrown' = renderError(progress, settings, view')
    /\ pending' = (pending /\ thrown' = NoError)
    /\ UNCHANGED <<progress, stored, written, history, settings, storedSettings,
                   calls, argVars, scoreVars, gradeVars, recVars, runVars, chatVars, dockVars>>

NextStart ==
    \/ \E v \in StartViews : Navigate(v)
    \/ \E mode \in StartModes : OpenMode(mode)
    \/ SaveEffect

SpecStart == InitStart /\ [][NextStart]_vars

\* ------------------------------------------------------ grade calls in flight
\* A click on Submit starts a grade call that outlives its component: it goes
\* on when the assessment is left, and a new instance of the assessment can
\* start another one.  A call holds the onSubmit of the render it was
\* started in, so the record it will update, and the awaits it has left.

\* The grade calls a session starts.
MaxCalls == 2

\* The awaits of a grade call: one per question that is not multiple choice.
shortsOf(qs) == Cardinality({k \in 1..Len(qs) : qs[k].type /= "mcq"})

\* A grade call started: the section (or the exam) whose questions it
\* grades, the record the onSubmit of its render names, the awaits left.
InFlight(subject, record, left) ==
    [graded |-> subject, record |-> record, left |-> left, state |-> "flight", percent |-> 0]

\* The views the handlers lead to from view v: onOpenHome, Sidebar onSelect
\* and Start, the header's onNav, onOpenDashboard, onOpenExam and
\* onOpenSettings, onOpenTest from a lesson, onCancel from a test.
ViewsFrom(v) ==
    {HomeView}
        \cup {[mode |-> "section", sectionIndex |-> i, lessonIndex |-> 0] : i \in SectionPool}
        \cup {[v EXCEPT !.mode = m] : m \in StartModes}
        \cup (IF v.mode = "section" THEN {[v EXCEPT !.mode = "test"]} ELSE {})

FlightViews ==
    [mode : {"home", "section", "test", "exam", "dashboard", "settings"},
     sectionIndex : SectionPool, lessonIndex : 0..2]

\* A handler sets the view to v: an assessment that is left unmounts, one
\* that is opened mounts with submitting (loading) false; the final exam
\* stays mounted when it is opened again from itself.
SetView(v) ==
    /\ v \in ViewsFrom(view)
    /\ view' = v
    /\ submitting' = (submitting /\ view.mode = "exam" /\ v.mode = "exam")
    /\ UNCHANGED <<progress, pending, stored, written, history, calls,
                   settings, storedSettings, thrown,
                   component, section, answers, run, submitted,
                   argVars, scoreVars, gradeVars, recVars, chatVars, dockVars>>

\* The percents a call can end with: those of a low and of a high result.
PercentsOf(record) ==
    IF record = "exam"
    THEN {percentOf(pts, maxOf(finalExam)) : pts \in ExamPoints}
    ELSE {percentOf(pts, maxOf(curriculum[1].test)) : pts \in {4, 8}}

\* The record the onSubmit of a call updates, whatever view v is shown when
\* it runs: currentSection of the render the call was started in, or exam.
recordedUnderShown(call, v) ==
    IF call.record = "exam" THEN "exam" ELSE curriculum[v.sectionIndex + 1].id

recordedUnder(call, v) == call.record

\* The end of grade: it clears the flag of its component and calls onSubmit,
\* onSectionTestSubmit or onFinalExamSubmit of its render, which records
\* the percent and leaves the assessment shown.
OnSubmit(call, percent) ==
    /\ LET record == recordedUnder(call, view)
       IN  /\ progress' = IF record = "exam"
                          THEN withExam(progress, percent)
                          ELSE withSectionTest(progress, record, percent)
           /\ history' = [history EXCEPT ![record] = Append(@, percent)]
    /\ view' = [view EXCEPT !.mode = IF call.record = "exam" THEN "dashboard" ELSE "section"]
    /\ submitting' = FALSE
    /\ pending' = TRUE

AtEnd(call, percent) ==
    [call EXCEPT !.left = 0, !.state = "finished", !.percent = percent]

\* grade of an assessment of `subject` whose onSubmit names `record`, with
\* `left` questions that are not multiple choice.  Without a key no adapter
\* call leaves the page: every await resolves before the next event, and
\* grade is at its end when the click is handled.  With a key grade waits at
\* its first fetch.
Grade(subject, record, left) ==
    /\ ~submitting
    /\ Len(calls) < MaxCalls
    /\ LET call == InFlight(subject, record, left)
       IN  IF settings.apiKey = ""
           THEN \E percent \in PercentsOf(record) :
                  /\ calls' = Append(calls, AtEnd(call, percent))
                  /\ OnSubmit(call, percent)
           ELSE /\ calls' = Append(calls, call)
                /\ submitting' = TRUE
                /\ UNCHANGED <<progress, view, pending, history>>
    /\ UNCHANGED <<stored, written, settings, storedSettings, thrown,
                   component, section, answers, run, submitted,
                   argVars, scoreVars, gradeVars, recVars, chatVars, dockVars>>

\* A click on Submit of the section test shown.
SubmitTest ==
    /\ view.mode = "test"
    /\ LET s == curriculum[view.sectionIndex + 1]
       IN  Grade(s.id, s.id, shortsOf(s.test))

\* A click on Submit Exam.
SubmitExam ==
    /\ view.mode = "exam"
    /\ Grade("exam", "exam", shortsOf(finalExam))

\* The adapter call that grade call i awaits settles: grade goes on to its
\* next await, or to its end.
Settles(i) ==
    /\ i \in 1..Len(calls)
    /\ calls[i].state = "flight"
    /\ IF calls[i].left > 1
       THEN /\ calls' = [calls EXCEPT ![i].left = @ - 1]
            /\ UNCHANGED <<progress, view, pending, history, submitting>>
       ELSE \E percent \in PercentsOf(calls[i].record) :
              /\ calls' = [calls EXCEPT ![i] = AtEnd(@, percent)]
              /\ OnSubmit(calls[i], percent)
    /\ UNCHANGED <<stored, written, settings, storedSettings, thrown,
                   component, section, answers, run, submitted,
                   argVars, scoreVars, gradeVars, recVars, chatVars, dockVars>>

\* The settings a session is opened with: none stored, or a key stored.
KeyedSettings == [apiKey |-> "sk-key", name |-> "Ana"]

InitFlight ==
    /\ stored = <<>>
    /\ written = <<>>
    /\ progress = loadLS(stored, defaultProgress)
    /\ view = HomeView
    /\ pending = TRUE
    /\ history = [r \in RecordNames |-> <<>>]
    /\ storedSettings \in {<<>>, <<stringify(KeyedSettings)>>}
    /\ settings = loadLS(storedSettings, defaultSettings)
    /\ thrown = NoError
    /\ calls = <<>>
    /\ text = <<>> /\ rubric = <<>> /\ scored = NotScored
    /\ GradeIdle
    /\ RecIdle
    /\ RunIdle
    /\ ChatIdle
    /\ DockIdle

NextFlight ==
    \/ \E v \in FlightViews : SetView(v)
    \/ SubmitTest
    \/ SubmitExam
    \/ \E i \in 1..MaxCalls : Settles(i)

\* Every adapter call settles at some time.
SpecFlight ==
    InitFlight /\ [][NextFlight]_vars /\ \A i \in 1..MaxCalls : WF_vars(Settles(i))

\* ------------------------------------------------------------- the session
\* The session as the user drives it: the lesson pages, the assessments and
\* their grade calls, and the Settings page.

\* SectionNavigator's previous button, disabled on the first lesson.
OnPrev ==
    /\ view.mode = "section"
    /\ view.lessonIndex /= 0
    /\ view' = [view EXCEPT !.lessonIndex = Max(0, @ - 1)]
    /\ UNCHANGED <<progress, pending, stored, written, history, notAppVars>>

\* Its next button with neither the disabled attribute nor the bound.
OnNextUnchecked ==
    /\ view.mode = "section"
    /\ view' = [view EXCEPT !.lessonIndex = @ + 1]
    /\ UNCHANGED <<progress, pending, stored, written, history, notAppVars>>

\* SectionNavigator's next button, disabled on the last lesson.
OnNext ==
    /\ view.mode = "section"
    /\ LET last == Len(curriculum[view.sectionIndex + 1].lessons) - 1
       IN  /\ view.lessonIndex /= last
           /\ view' = [view EXCEPT !.lessonIndex = Min(last, @ + 1)]
    /\ UNCHANGED <<progress, pending, stored, written, history, notAppVars>>

\* The values Save of the Settings page can hold in its fields.
SettingsPool == [apiKey : ApiKeys, name : {"", "Ana"}]

\* Save on the Settings page: setSettings(s), and the effect on [settings],
\* saveLS(LS_SETTINGS_KEY, settings).
SaveSettings(s) ==
    /\ view.mode = "settings"
    /\ settings' = s
    /\ storedSettings' = <<stringify(s)>>
    /\ UNCHANGED <<appVars, thrown, calls, runVars,
                   argVars, scoreVars, gradeVars, recVars, chatVars, dockVars>>

\* The lesson pages and the assessments.
NextLessons ==
    \/ \E v \in FlightViews : SetView(v)
    \/ OnPrev
    \/ OnNext
    \/ SubmitTest
    \/ SubmitExam
    \/ \E i \in 1..MaxCalls : Settles(i)

SpecLessons == InitFlight /\ [][NextLessons]_vars

\* The first lesson of each section, the assessments and the Settings page.
NextSession ==
    \/ \E v \in FlightViews : SetView(v)
    \/ MarkLessonComplete
    \/ SubmitTest
    \/ SubmitExam
    \/ \E i \in 1..MaxCalls : Settles(i)
    \/ \E s \in SettingsPool : SaveSettings(s)

SpecSession == InitFlight /\ [][NextSession]_vars

\* ---------------------------------------------------------- the tutor's dock
\* ChatDock keeps the messages shown and the text of its input.  Every click
\* on Send is an invocation of send; one that gets past the blank check
\* holds an assistantReply call, which settles at once without a key and at
\* some later time with one.

\* The invocations of send in a session.
MaxSends == 3

\* The texts typed into the input.
InputPool == { <<>>, <<" ", " ">>, <<" ", "a", " ">>, <<"b">> }

\* String.prototype.trim
RECURSIVE trimStart(_)
trimStart(s) == IF Len(s) > 0 /\ isSpace(s[1]) THEN trimStart(Tail(s)) ELSE s

RECURSIVE trimEnd(_)
trimEnd(s) ==
    IF Len(s) > 0 /\ isSpace(s[Len(s)]) THEN trimEnd(SubSeq(s, 1, Len(s) - 1)) ELSE s

trim(s) == trimEnd(trimStart(s))

\* The greeting (with a plain apostrophe for the source's curly one).
Greeting == "Hi! Ask me about this lesson or test. I'll guide you."

Message(role, content) == [role |-> role, content |-> content]

\* An updater that puts the message first.
withMessageFirst(m, role, content) == <<Message(role, content)>> \o m

\* The updaters of send: m => [...m, { role, content }]
withMessage(m, role, content) == Append(m, Message(role, content))

\* The documents a tutor request is answered with, and what a call with a
\* key resolves to: the catch block's text, or the return statement's value.
DockDocs == {Json("noChoices", <<>>), Json("string", <<"1">>), Json("truthyNonString", <<>>)}
DockReplies == {TroubleReply} \cup {replyOf(json) : json \in DockDocs}

\* onChange of the input: setInput(e.target.value)
TypeInput(val) ==
    /\ input' = val
    /\ UNCHANGED <<messages, sends, argVars, scoreVars, gradeVars, recVars, runVars,
                   appVars, chatVars, sessionVars>>

\* A click on Send.  On a blank input send returns.  Otherwise it appends
\* the user's message, clears the input and calls assistantReply with the
\* key of the settings of its render: without a key the reply is there
\* before the next event, with one the call waits for the provider.
SendClick ==
    /\ Len(sends) < MaxSends
    /\ IF trim(input) = <<>>
       THEN /\ sends' = Append(sends, [question |-> <<>>, state |-> "returned", userAt |-> 0])
            /\ UNCHANGED <<input, messages>>
       ELSE LET question == trim(input)
                asked == withMessage(messages, "user", question)
            IN  /\ input' = <<>>
                /\ IF settings.apiKey = ""
                   THEN /\ messages' = withMessage(asked, "assistant", nudges)
                        /\ sends' = Append(sends, [question |-> question, state |-> "settled",
                                                   userAt |-> Len(asked)])
                   ELSE /\ messages' = asked
                        /\ sends' = Append(sends, [question |-> question, state |-> "flight",
                                                   userAt |-> Len(asked)])
    /\ UNCHANGED <<argVars, scoreVars, gradeVars, recVars, runVars,
                   appVars, chatVars, sessionVars>>

\* The assistantReply call of invocation i settles, and send appends the
\* assistant's message.
ReplySettles(i) ==
    /\ i \in 1..Len(sends)
    /\ sends[i].state = "flight"
    /\ \E r \in DockReplies : messages' = withMessage(messages, "assistant", r)
    /\ sends' = [sends EXCEPT ![i].state = "settled"]
    /\ UNCHANGED <<input, argVars, scoreVars, gradeVars, recVars, runVars,
                   appVars, chatVars, sessionVars>>

\* The application is open on its Settings page, with or without a key, and
\* the dock shows its greeting.
InitChat ==
    /\ stored = <<>>
    /\ written = <<>>
    /\ progress = loadLS(stored, defaultProgress)
    /\ view = [HomeView EXCEPT !.mode = "settings"]
    /\ pending = TRUE
    /\ history = [r \in RecordNames |-> <<>>]
    /\ storedSettings \in {<<>>, <<stringify(KeyedSettings)>>}
    /\ settings = loadLS(storedSettings, defaultSettings)
    /\ thrown = NoError
    /\ calls = <<>>
    /\ input = <<>>
    /\ messages = <<Message("system", Greeting)>>
    /\ sends = <<>>
    /\ text = <<>> /\ rubric = <<>> /\ scored = NotScored
    /\ GradeIdle
    /\ RecIdle
    /\ RunIdle
    /\ ChatIdle

NextChat ==
    \/ \E val \in InputPool : TypeInput(val)
    \/ SendClick
    \/ \E i \in 1..MaxSends : ReplySettles(i)
    \/ \E s \in SettingsPool : SaveSettings(s)

SpecChat == InitChat /\ [][NextChat]_vars

\* The record of a name as the dashboard reads it: a section without one
\* counts as no attempts and a best of 0.
RecordOf(r) ==
    IF r = "exam" THEN progress.exam
    ELSE [attempts |-> attemptsOr0(progress, r), best |-> bestOr0(progress, r)]

\* The largest of a sequence of percents, 0 for none.
RefLargest(ps) ==
    IF ps = <<>> THEN 0
    ELSE CHOOSE m \in {ps[k] : k \in 1..Len(ps)} : \A k \in 1..Len(ps) : ps[k] <= m

\* C4: on every progress record (each section's and the exam's), after the
\* submissions p1..pn recorded on it, attempts = n and best = max(p1..pn)
\* (so best never decreases); submissions 40, 90, 60 give best 90, attempts 3.
C4_AttemptsAndBest ==
    \A r \in RecordNames :
        /\ RecordOf(r).attempts = Len(history[r])
        /\ RecordOf(r).best = RefLargest(history[r])
        /\ \A k \in 1..Len(history[r]) : RefLargest(SubSeq(history[r], 1, k)) <= RecordOf(r).best
        /\ history[r] = <<40, 90, 60>> => RecordOf(r).best = 90 /\ RecordOf(r).attempts = 3

\* C4's case: a section test submitted three times, low, then high, then in
\* between (the percents of 4, 8 and 5 points out of 9).
C4_Witness ==
    \E r \in RecordNames \ {"exam"} :
        /\ history[r] = <<44, 89, 56>>
        /\ r \in DOMAIN progress.sectionScores
        /\ progress.sectionScores[r] = [attempts |-> 3, best |-> 89]

\* A complete Progress value: the three members, no other.
IsProgress(v) == DOMAIN v = {"lessonsCompleted", "sectionScores", "exam"}

\* The stored value is a complete Progress value the session held (the one
\* held when it was written).
StoredWasHeld ==
    stored /= <<>> =>
        /\ written /= <<>>
        /\ IsProgress(parse(stored[1]))
        /\ parse(stored[1]) = written[1]

\* With no write pending the stored value is the in-memory Progress, which
\* a restart then reloads.
StoredIsCurrent ==
    ~pending =>
        /\ stored /= <<>>
        /\ parse(stored[1]) = progress
        /\ loadLS(stored, defaultProgress) = progress

\* C10: in every reachable state, a crash before the write and a failed
\* write included, the stored value is a complete Progress value that the
\* session held, and once no write is pending it equals the in-memory
\* Progress, so that a restart reloads exactly that value.
C10_Original == StoredWasHeld /\ StoredIsCurrent

\* A recorded submission that a restart loses: the write after it failed,
\* nothing is pending, and what is stored is the progress before it.
C10_LostSubmission ==
    /\ ~pending
    /\ stored /= <<>>
    /\ totalAttempts(parse(stored[1])) < totalAttempts(progress)

\* Every token of every criterion of the rubric appears in the text.
RefAllTokensIn(txt, criteria) ==
    \A j \in 1..Len(criteria) : \A tok \in RefTokens(criteria[j]) : RefContains(txt, tok)

ExamAllMcqRightShortsZero ==
    /\ Finished
    /\ Len(RunQuestions) = 12
    /\ \A k \in 1..12 :
         LET q == RunQuestions[k]
         IN  IF q.type = "mcq"
             THEN q.id \in DOMAIN RunAnswers /\ RunAnswers[q.id] = q.answer
             ELSE AdapterScores[q.id] = 0

RefMcqPoints ==
    SumSeq([k \in 1..Len(RunQuestions) |->
              IF RunQuestions[k].type = "mcq" THEN Report.perQuestion[RunQuestions[k].id] ELSE 0])

RefShortMax ==
    SumSeq([k \in 1..Len(RunQuestions) |->
              IF RunQuestions[k].type = "short" THEN RunQuestions[k].maxScore ELSE 0])

\* C16 as stated: in that case the multiple-choice points total 6, the
\* short-answer maximum totals 18 and the percent reported is 25.
C16_Original ==
    ExamAllMcqRightShortsZero =>
        RefMcqPoints = 6 /\ RefShortMax = 18 /\ Report.percent = 25

\* C16: in that case the multiple-choice points total 6, the short-answer
\* maximum totals 22 (4, 4, 4, 3, 3, 4) and the percent reported is
\* round(100*6/28) = 21.
C16_ShippedExamExample ==
    ExamAllMcqRightShortsZero =>
        /\ RefMcqPoints = 6
        /\ RefShortMax = 22
        /\ Report.percent = 21
        /\ Report.percent = RefRounded(100 * 6, 6 + 22)

\* C16's case is reached, six questions of each kind.
C16_Witness ==
    /\ ExamAllMcqRightShortsZero
    /\ Cardinality(McqOf(RunQuestions)) = 6
    /\ Cardinality(DOMAIN AdapterScores) = 6

\* The sections under which the recommender's map lists an exam question.
OwnersOf(id) ==
    {recMap[r].sec : r \in {x \in 1..Len(recMap) :
                              \E j \in 1..Len(recMap[x].ids) : recMap[x].ids[j] = id}}

\* C17: every exam question id is owned by at most one section of the
\* recommendation mapping, so the points of no question are counted towards
\* the scores of two sections.
C17_Original ==
    recs /= <<>> =>
        \A id \in DOMAIN perQuestion : Cardinality(OwnersOf(id)) <= 1

\* One lost question makes two sections weak: only E2 scored 0, and both
\* foundations and macro are listed.
C17_CountedTwice ==
    /\ recs /= <<>>
    /\ perQuestion["E2"] = 0
    /\ \A id \in DOMAIN perQuestion \ {"E2"} : perQuestion[id] = examById[id].maxScore
    /\ {Recs.weakSections[k].sectionId : k \in 1..Len(Recs.weakSections)}
         = {"foundations", "macro"}

\* The lesson shown, and a step that marks it complete.
ShownLesson == lessonKey(view.sectionIndex, view.lessonIndex)

MarkStep ==
    /\ view.mode = "section"
    /\ pending'
    /\ UNCHANGED <<view, history>>
    /\ progress'.sectionScores = progress.sectionScores
    /\ progress'.exam = progress.exam

\* C18: marking a lesson complete sets its flag, marking it again (any
\* number of times) leaves the Progress it gave the first time, and no
\* operation turns a completed flag back to false.
C18_MarkIsIdempotent ==
    [][/\ progress.lessonsCompleted \subseteq progress'.lessonsCompleted
       /\ MarkStep =>
            /\ ShownLesson \in progress'.lessonsCompleted
            /\ withLessonComplete(progress', ShownLesson) = progress'
            /\ withLessonComplete(withLessonComplete(progress, ShownLesson), ShownLesson)
                 = progress'
            /\ (ShownLesson \in progress.lessonsCompleted => progress' = progress)]_vars

\* C18's case: the shown lesson is complete and saved, and it was marked
\* again: a save is pending for a Progress equal to the stored one.
C18_Witness ==
    /\ view.mode = "section"
    /\ ShownLesson \in progress.lessonsCompleted
    /\ pending
    /\ stored /= <<>>
    /\ parse(stored[1]) = progress
    /\ Cardinality(progress.lessonsCompleted) = 2

\* C19 as stated: with a key one request is issued and the reply is the
\* provider's text verbatim or the apology, the apology on every failure (a
\* rejected request, a body that is no JSON, a document with missing fields);
\* without a key the reply is the fixed message of the four hints in order.
RefHintsMessage ==
    << "Here are some nudges:",
       "\n* ", "Start by defining key terms in the question.",
       "\n* ", "Sketch a quick diagram if relevant (PPC, AD-AS, MSC/MPC).",
       "\n* ", "State the direction of shifts and the intuition before calculation.",
       "\n* ", "Conclude with a brief evaluation: assumptions, time horizon, stakeholders.",
       "\nIf you share your attempt, I can pinpoint what to adjust." >>

RefApology ==
    <<"I had trouble reaching the AI service, so here are heuristics: define terms, diagram, explain the mechanism, then evaluate trade-offs.">>

RefHasText(resp) ==
    resp.stage = "json" /\ resp.json.shape = "string" /\ resp.json.content /= <<>>

RefOneRequest ==
    /\ (apiKey /= "" /\ replyPc \in {"fetch", "json", "done"}) => requests = 1
    /\ (apiKey = "" \/ replyPc = "call") => requests = 0

RefWithoutKey ==
    (replyPc = "done" /\ apiKey = "") => reply = <<FixedReply(RefHintsMessage)>>

RefPosition(qid) == CHOOSE k \in 1..Len(RunQuestions) : RunQuestions[k].id = qid

\* The run holds a result for the question: a section test its feedback, the
\* final exam its points.
RefHasResult(q) ==
    IF "feedback" \in DOMAIN run[1]
    THEN q.id \in DOMAIN run[1].feedback
    ELSE q.id \in DOMAIN run[1].perQuestion

\* C13: within one assessment run the request for a short-answer question is
\* issued only after every earlier question of the run has its result, at
\* most one request of the run is outstanding at any time, requests are
\* issued in question order for short-answer questions only, and no question
\* causes more than one request.
C13_GradedInOrder ==
    run /= <<>> =>
        LET requested == run[1].requested
        IN  /\ Cardinality(run[1].outstanding) <= 1
            /\ \A a, b \in 1..Len(requested) :
                  a < b => RefPosition(requested[a]) < RefPosition(requested[b])
            /\ \A a \in 1..Len(requested) :
                  RunQuestions[RefPosition(requested[a])].type = "short"
            /\ \A qid \in run[1].outstanding :
                  /\ requested /= <<>> /\ requested[Len(requested)] = qid
                  /\ \A j \in 1..(RefPosition(qid) - 1) : RefHasResult(RunQuestions[j])
                  /\ ~RefHasResult(RunQuestions[RefPosition(qid)])

\* The request for the third short answer of the final exam is outstanding.
C13_Witness ==
    /\ run /= <<>> /\ component = "FinalExam" /\ apiKey /= ""
    /\ run[1].requested = <<"E2", "E4", "E6">>
    /\ run[1].outstanding = {"E6"}

\* C12: in a session whose key is empty throughout, no operation issues an
\* external request: no request of a section test or of the final exam is
\* ever issued or outstanding, the tutor never waits for a provider, every
\* finished assessment reports a percent and every reply is the fixed message
\* of hints.
C12_OfflineWithoutKey ==
    /\ apiKey = ""
    /\ requests = 0
    /\ run /= <<>> => run[1].requested = <<>> /\ run[1].outstanding = {}
    /\ replyPc \in {"idle", "call", "done"}
    /\ replyPc = "done" => reply = <<FixedReply(RefHintsMessage)>>
    /\ Finished => Report.percent \in 0..100

\* The final exam was graded to its end and the tutor answered meanwhile.
C12_Witness ==
    /\ apiKey = "" /\ Finished /\ "perQuestion" \in DOMAIN Report
    /\ DOMAIN AdapterScores = {"E2", "E4", "E6", "E8", "E10", "E12"}
    /\ replyPc = "done" /\ reply = <<FixedReply(RefHintsMessage)>>

RefAllMcq == \A k \in 1..Len(RunQuestions) : RunQuestions[k].type = "mcq"

RefCorrectlyAnswered(q) == q.id \in DOMAIN RunAnswers /\ RunAnswers[q.id] = q.answer

\* C14: on a question set of multiple-choice questions only, each with
\* maxScore > 0, the run reports percent 100 when every question's answer is
\* its correct index, and percent 0 when no question's answer is (unanswered
\* questions included).
C14_AllOrNothing ==
    (Finished /\ RefAllMcq /\ \A k \in 1..Len(RunQuestions) : RunQuestions[k].maxScore > 0) =>
        /\ (\A k \in 1..Len(RunQuestions) : RefCorrectlyAnswered(RunQuestions[k]))
              => Report.percent = 100
        /\ (\A k \in 1..Len(RunQuestions) : ~RefCorrectlyAnswered(RunQuestions[k]))
              => Report.percent = 0

\* Three questions of different weight, one answered wrongly and two left
\* unanswered: percent 0.
C14_Witness ==
    /\ Finished /\ RefAllMcq /\ Len(RunQuestions) = 3
    /\ RunQuestions[1].maxScore /= RunQuestions[2].maxScore
    /\ DOMAIN RunAnswers = {"q1"} /\ RunAnswers["q1"] /= RunQuestions[1].answer
    /\ Report.percent = 0

\* The item is the text of a complete Progress (Settings) object.
RefIsSerialized(item, keys) ==
    /\ item /= <<>>
    /\ item[1].kind = "object"
    /\ {item[1].members[i][1] : i \in 1..Len(item[1].members)} = keys

\* C11 as stated: when a stored record is absent, unreadable or corrupted
\* (unparsable text, the text null, an object lacking the expected members)
\* the session starts with the default value, and no error is ever thrown.
C11_Original ==
    /\ thrown = NoError
    /\ (written = <<>> /\ ~RefIsSerialized(stored, {"lessonsCompleted", "sectionScores", "exam"}))
          => progress = [lessonsCompleted |-> {}, sectionScores |-> <<>>,
                         exam |-> [attempts |-> 0, best |-> 0]]
    /\ ~RefIsSerialized(storedSettings, {"apiKey", "name"})
          => settings = [apiKey |-> "", name |-> ""]

\* The stored text null was loaded as the Progress value and the first render
\* threw.
C11_CrashAtStart ==
    /\ stored = <<Text("null")>> /\ progress = Null /\ thrown = "TypeError"

\* The percents of the finished grade calls of a record.
RefFinished(r) == {i \in 1..Len(calls) : calls[i].state = "finished" /\ calls[i].record = r}

RefRecord(r) ==
    IF r = "exam" THEN progress.exam
    ELSE IF r \in DOMAIN progress.sectionScores THEN progress.sectionScores[r]
    ELSE [attempts |-> 0, best |-> 0]

RefRecordedOnce ==
    \A r \in RecordNames :
        /\ RefRecord(r).attempts = Cardinality(RefFinished(r))
        /\ Len(history[r]) = Cardinality(RefFinished(r))
        /\ \A i \in RefFinished(r) :
              /\ RefRecord(r).best >= calls[i].percent
              /\ \E h \in 1..Len(history[r]) : history[r][h] = calls[i].percent
        /\ RefFinished(r) /= {} =>
              \E i \in RefFinished(r) : RefRecord(r).best = calls[i].percent

\* C20: every grade call started by Submit finishes, given that every adapter
\* call settles, and is recorded exactly once: at all times the attempts of a
\* record count the finished calls of that record, and its best is the
\* largest percent among them, however calls overlap and whatever the user
\* does meanwhile.
C20_FinishedAndRecordedOnce ==
    /\ []RefRecordedOnce
    /\ \A i \in 1..MaxCalls :
          (Len(calls) >= i) ~> (Len(calls) >= i /\ calls[i].state = "finished")

\* Two grade calls of the same section test overlap: the second one, started
\* from a new instance of the test, has finished and is recorded while the
\* first one still waits for its last adapter call.
C20_Witness ==
    /\ Len(calls) = 2
    /\ calls[1].record = "foundations" /\ calls[2].record = "foundations"
    /\ calls[1].state = "flight" /\ calls[1].left = 1
    /\ calls[2].state = "finished"
    /\ progress.sectionScores["foundations"].attempts = 1

\* The grade calls suspended on an adapter call.
RefInFlight == {i \in 1..Len(calls) : calls[i].state = "flight"}

\* C21: in every reachable state at most one grade call is in flight: while
\* one is suspended on an adapter call no user action starts a second one,
\* of the same test, of another section's test or of the final exam.
C21_Original == Cardinality(RefInFlight) <= 1

\* With a key: Submit on a section test, Cancel, the test opened again, and
\* Submit on its new instance, while the first call still waits.
C21_TwoInFlight ==
    /\ settings.apiKey /= ""
    /\ Cardinality(RefInFlight) = 2
    /\ calls[1].graded = calls[2].graded
    /\ view.mode = "test" /\ submitting

\* The record of r in progress p; a section never tested has none.
RefRecordIn(p, r) ==
    IF r = "exam" THEN p.exam
    ELSE IF r \in DOMAIN p.sectionScores THEN p.sectionScores[r]
    ELSE [attempts |-> 0, best |-> 0]

\* The grade calls that reach their end in a step.
RefFinishing ==
    {i \in 1..Len(calls') :
        calls'[i].state = "finished" /\ (i > Len(calls) \/ calls[i].state = "flight")}

RefSectionIds == {curriculum[k].id : k \in 1..Len(curriculum)}

\* C22: a section test that finishes is recorded under the section whose
\* questions were graded, whatever view is shown by then: that section's
\* record gains one attempt and its best is the larger of the old best and
\* the percent; no other section's record and not the exam's changes.
C22_RecordedUnderGraded ==
    [][\A i \in RefFinishing :
          calls'[i].graded /= "exam" =>
             /\ RefRecordIn(progress', calls'[i].graded) =
                   [attempts |-> RefRecordIn(progress, calls'[i].graded).attempts + 1,
                    best |-> Max(RefRecordIn(progress, calls'[i].graded).best,
                                 calls'[i].percent)]
             /\ \A r \in RefSectionIds \ {calls'[i].graded} :
                   RefRecordIn(progress', r) = RefRecordIn(progress, r)
             /\ progress'.exam = progress.exam]_vars

\* The test of the first section was submitted and another section selected
\* and its test submitted meanwhile: the first call has finished, the view
\* shows the other section, and only the first section has a record.
C22_Witness ==
    /\ Len(calls) = 2
    /\ calls[1].graded = "foundations" /\ calls[1].state = "finished"
    /\ calls[2].graded = "micro-markets" /\ calls[2].state = "flight"
    /\ calls[2].left = shortsOf(curriculum[2].test)
    /\ view.sectionIndex = 1 /\ view.mode = "section"
    /\ DOMAIN progress.sectionScores = {"foundations"}
    /\ progress.sectionScores["foundations"].attempts = 1

\* C24: in every view the session reaches, sectionIndex is an index into the
\* curriculum and lessonIndex an index into the lessons of that section, so
\* the current section and the current lesson are defined.
C24_IndicesValid ==
    /\ view.sectionIndex \in 0..(Len(curriculum) - 1)
    /\ view.lessonIndex \in 0..(Len(curriculum[view.sectionIndex + 1].lessons) - 1)

\* The last lesson of the second section is shown after a grade call has
\* finished.
C24_Witness ==
    /\ view = [mode |-> "section", sectionIndex |-> 1, lessonIndex |-> 2]
    /\ \E i \in 1..Len(calls) : calls[i].state = "finished"

\* The flags of the lessons other than `key` are the same before and after.
RefOtherLessonsSame(key) ==
    progress'.lessonsCompleted \ {key} = progress.lessonsCompleted \ {key}

RefScoresSame(ids) ==
    \A r \in ids : RefRecordIn(progress', r) = RefRecordIn(progress, r)

\* C23: each recording operation changes only its own part of the state.
\* Marking a lesson complete sets that lesson's flag and leaves every other
\* flag, every section record and the exam record as they were; a section
\* test that finishes changes that section's record only; an exam that
\* finishes changes the exam record only; Save on the Settings page leaves
\* progress as it was, and no step that changes progress changes settings.
C23_OwnPartOnly ==
    [][/\ MarkLessonComplete =>
            /\ lessonKey(view.sectionIndex, view.lessonIndex) \in progress'.lessonsCompleted
            /\ RefOtherLessonsSame(lessonKey(view.sectionIndex, view.lessonIndex))
            /\ progress'.sectionScores = progress.sectionScores
            /\ progress'.exam = progress.exam
       /\ \A i \in RefFinishing :
            /\ progress'.lessonsCompleted = progress.lessonsCompleted
            /\ RefScoresSame(RefSectionIds \ {calls'[i].graded})
            /\ calls'[i].graded /= "exam" => progress'.exam = progress.exam
            /\ RefRecordIn(progress', calls'[i].graded) /= RefRecordIn(progress, calls'[i].graded)
       /\ (\E s \in SettingsPool : SaveSettings(s)) => progress' = progress
       /\ progress' /= progress => settings' = settings]_vars

\* A lesson of each section is marked, a section test and the exam are
\* recorded, and a key was saved on the Settings page since the start.
C23_Witness ==
    /\ Cardinality(progress.lessonsCompleted) = 2
    /\ DOMAIN progress.sectionScores = {"micro-markets"}
    /\ progress.exam.attempts = 1
    /\ storedSettings = <<stringify([apiKey |-> "sk-key", name |-> ""])>>
    /\ settings.apiKey = "sk-key"

\* The text between the first and the last character of s that is no space.
RefTrim(s) ==
    LET solid == {k \in 1..Len(s) : s[k] /= " "}
    IN  IF solid = {} THEN <<>>
        ELSE SubSeq(s, CHOOSE k \in solid : \A j \in solid : k <= j,
                       CHOOSE k \in solid : \A j \in solid : j <= k)

RefCount(m, role) == Cardinality({k \in 1..Len(m) : m[k].role = role})

RefAsked == {i \in 1..Len(sends) : sends[i].state /= "returned"}

\* The messages shown account for the invocations of send: one user message
\* per invocation with a question, at its place and with its trimmed text,
\* and one assistant message per call that has settled.
RefMessagesAccounted ==
    /\ messages[1].role = "system"
    /\ RefCount(messages, "user") = Cardinality(RefAsked)
    /\ RefCount(messages, "assistant") =
          Cardinality({i \in RefAsked : sends[i].state = "settled"})
    /\ RefCount(messages, "assistant") <= RefCount(messages, "user")
    /\ \A i \in RefAsked :
          /\ sends[i].question /= <<>>
          /\ sends[i].userAt \in 2..Len(messages)
          /\ messages[sends[i].userAt] = Message("user", sends[i].question)
          /\ \A j \in RefAsked : i < j => sends[i].userAt < sends[j].userAt

\* What a step does to the dock: messages are only added at the end; a
\* click on Send with a blank input changes neither messages nor input and
\* starts no call; one with a question adds the user's message with the
\* trimmed text at once, and nothing else unless its call has settled by
\* then; a call that settles adds one assistant message, after the user
\* message of its invocation.
RefDockStep ==
    /\ Len(messages') >= Len(messages)
    /\ SubSeq(messages', 1, Len(messages)) = messages
    /\ Len(sends') > Len(sends) =>
          LET new == sends'[Len(sends')]
          IN  IF RefTrim(input) = <<>>
              THEN new.state = "returned" /\ messages' = messages /\ input' = input
              ELSE /\ messages'[Len(messages) + 1] = Message("user", RefTrim(input))
                   /\ new.userAt = Len(messages) + 1
                   /\ RefCount(messages', "user") = RefCount(messages, "user") + 1
                   /\ IF new.state = "flight"
                      THEN Len(messages') = Len(messages) + 1
                      ELSE /\ new.state = "settled"
                           /\ Len(messages') = Len(messages) + 2
                           /\ messages'[Len(messages')].role = "assistant"
    /\ \A i \in 1..Len(sends) :
          (sends[i].state = "flight" /\ sends'[i].state = "settled") =>
             /\ Len(messages') = Len(messages) + 1
             /\ messages'[Len(messages')].role = "assistant"
             /\ sends[i].userAt < Len(messages')
             /\ messages'[sends[i].userAt] = Message("user", sends[i].question)

\* C25: in the tutor chat, however sends and the settling of their calls
\* interleave, a send with a blank input changes nothing and starts no call;
\* a send with a question adds one user message at once and, when its call
\* settles, one assistant message after it; no message is removed or moved,
\* and there are never more assistant messages than user messages.
C25_ChatLog == []RefMessagesAccounted /\ [][RefDockStep]_vars

\* After a blank send, two questions are asked with a key; the reply to the
\* second has arrived while the first call still waits.
C25_Witness ==
    /\ Len(sends) = 3
    /\ sends[1].state = "returned"
    /\ sends[2] = [question |-> <<"a">>, state |-> "flight", userAt |-> 2]
    /\ sends[3] = [question |-> <<"b">>, state |-> "settled", userAt |-> 3]
    /\ messages = << Message("system", Greeting), Message("user", <<"a">>),
                     Message("user", <<"b">>), Message("assistant", TroubleReply) >>

====
